---- MODULE Spec2Model ----
(***************************************************************************)
(* Verification model of the medical-coding exam agent:                    *)
(*   - the answer step (answerQuestionsWithConfidence and the family       *)
(*     handlers with their persisted code-description cache),              *)
(*   - the verification step (verifyLowConfidenceAnswers, in its           *)
(*     single-strategy and its three-strategy variant),                    *)
(*   - the answerer's response parsing, and                                *)
(*   - the scoring against the answer key (compareNode).                   *)
(*                                                                         *)
(* Strings of the program are sequences of one-character strings, so that  *)
(* the regular expressions, toLowerCase, includes and trim of the source   *)
(* are computed and not assumed.                                           *)
(***************************************************************************)
EXTENDS Integers, Sequences, FiniteSets, TLC

VARIABLES
  questions,          \* the Question[] handed to the running step
  useExplanations,    \* state.useExplanations
  cacheFile,          \* cached_code_descriptions.json
  mergedFile,         \* merged_code_descriptions.json
  pc,                 \* position of the running step
  qi,                 \* index of the question being processed
  frame,              \* locals of the running family handler
  answeredQuestions,  \* answerQuestionsWithConfidence: the result list
  fetchLog,           \* history: resolver invocations, in order
  batchSize,          \* answerQuestionsWithConfidence: the size of a batch
  batchStart,         \* answerQuestionsWithConfidence: i, where the batch begins
  threwLog,           \* history: numbers of the questions whose handler threw
  variant,            \* which verifyLowConfidenceAnswers runs
  entryQuestions,     \* history: the questions as they entered verification
  verifiedQuestions,  \* verifyLowConfidenceAnswers: the result list
  strategy,           \* position in the verification chain
  providerLog,        \* history: verification provider invocations, in order
  attemptErrors,      \* history: what each attempt for the current question threw
  lastResponse,       \* history: what the provider gave to the latest attempt
  sampledQuestions,   \* devilsAdvocateCheck: the positions of the sampled questions
  llmContent,         \* the text returned by the answering model
  parsedAnswer,       \* what the answerer made of llmContent
  answerKey,          \* answer_key.json
  testResults,        \* compareNode: the TestResults
  performanceLogFile,     \* performance_log.json
  performanceHistoryFile, \* performance_history.json
  classifyLog,        \* history: the calls of determineQuestionType, in order
  queryCall,          \* PerplexityAPI.query: the arguments of the running call
  requestLog          \* history: the requests PerplexityAPI.query has posted, in order

answerVars == <<frame, answeredQuestions, fetchLog, threwLog, batchSize, batchStart>>
fileVars == <<useExplanations, cacheFile, mergedFile>>
verifyVars == <<variant, entryQuestions, verifiedQuestions, strategy, providerLog,
               attemptErrors, lastResponse, sampledQuestions>>
parseVars == <<llmContent, parsedAnswer>>
scoreVars == <<answerKey, testResults, performanceLogFile, performanceHistoryFile>>
classifyVars == <<classifyLog>>
queryVars == <<queryCall, requestLog>>

vars == <<questions, pc, qi, fileVars, answerVars, verifyVars, parseVars, scoreVars,
         classifyVars, queryVars>>

-----------------------------------------------------------------------------
(* Characters and strings *)

UpperSeq == <<"A","B","C","D","E","F","G","H","I","J","K","L","M",
              "N","O","P","Q","R","S","T","U","V","W","X","Y","Z">>
LowerSeq == <<"a","b","c","d","e","f","g","h","i","j","k","l","m",
              "n","o","p","q","r","s","t","u","v","w","x","y","z">>
Upper == {UpperSeq[i] : i \in 1..Len(UpperSeq)}
Lower == {LowerSeq[i] : i \in 1..Len(LowerSeq)}
Digit == {"0","1","2","3","4","5","6","7","8","9"}
\* \w and \s of JavaScript regular expressions
WordChar == Upper \cup Lower \cup Digit \cup {"_"}
Space == {" ", "\n", "\t"}

\* String.prototype.toLowerCase, one character
LowerChar(c) ==
  IF c \in Upper
    THEN LowerSeq[CHOOSE i \in 1..Len(UpperSeq) : UpperSeq[i] = c]
    ELSE c

ToLowerCase(s) == [i \in 1..Len(s) |-> LowerChar(s[i])]

\* String.prototype.includes
Includes(hay, needle) ==
  \E i \in 1..(Len(hay) - Len(needle) + 1) :
    \A k \in 1..Len(needle) : hay[i + k - 1] = needle[k]

\* Array.prototype.join(sep) of an array of strings
RECURSIVE Join(_, _)
Join(arr, sep) ==
  IF Len(arr) = 0 THEN <<>>
  ELSE IF Len(arr) = 1 THEN arr[1]
  ELSE arr[1] \o sep \o Join(Tail(arr), sep)

\* Array.prototype.push(...b)
RECURSIVE Flatten(_)
Flatten(seqs) ==
  IF seqs = <<>> THEN <<>> ELSE Head(seqs) \o Flatten(Tail(seqs))

AllDigits(s, from, to) ==
  to <= Len(s) /\ \A k \in from..to : s[k] \in Digit

\* number of consecutive digits of s starting at position i
RECURSIVE DigitRun(_, _)
DigitRun(s, i) ==
  IF i <= Len(s) /\ s[i] \in Digit THEN 1 + DigitRun(s, i + 1) ELSE 0

-----------------------------------------------------------------------------
(* The three code patterns *)

\* /[A-Z]\d{4}/ matched at position i: length of the match, 0 if none
HcpcsMatchLen(s, i) ==
  IF s[i] \in Upper /\ AllDigits(s, i + 1, i + 4) THEN 5 ELSE 0

\* /[A-Z]\d{2}(\.\d+)?/ matched at position i
IcdMatchLen(s, i) ==
  IF s[i] \in Upper /\ AllDigits(s, i + 1, i + 2)
    THEN IF i + 4 <= Len(s) /\ s[i + 3] = "." /\ s[i + 4] \in Digit
           THEN 4 + DigitRun(s, i + 4)
           ELSE 3
    ELSE 0

\* /\b\d{5}\b/ matched at position i
CptMatchLen(s, i) ==
  IF /\ (i = 1 \/ s[i - 1] \notin WordChar)
     /\ AllDigits(s, i, i + 4)
     /\ (i + 5 > Len(s) \/ s[i + 5] \notin WordChar)
    THEN 5 ELSE 0

PatternMatchLen(family, s, i) ==
  CASE family = "HCPCS" -> HcpcsMatchLen(s, i)
    [] family = "ICD-10" -> IcdMatchLen(s, i)
    [] family = "CPT" -> CptMatchLen(s, i)

\* option.match(/pattern/g): every match, left to right, not overlapping
RECURSIVE MatchAllFrom(_, _, _)
MatchAllFrom(family, s, i) ==
  IF i > Len(s) THEN <<>>
  ELSE LET n == PatternMatchLen(family, s, i)
       IN  IF n > 0
             THEN <<SubSeq(s, i, i + n - 1)>> \o MatchAllFrom(family, s, i + n)
             ELSE MatchAllFrom(family, s, i + 1)

MatchAll(family, s) == MatchAllFrom(family, s, 1)

\* option.match(/pattern/): the first match, <<>> (null) if none
MatchFirst(family, s) ==
  LET all == MatchAll(family, s) IN IF all = <<>> THEN <<>> ELSE all[1]

\* the handlers' extraction loop: the matches of every option, duplicates kept
ExtractCodes(family, options) ==
  Flatten([k \in 1..Len(options) |-> MatchAll(family, options[k])])

-----------------------------------------------------------------------------
(* Questions *)

\* an optional string field that is not set (undefined)
Undefined == "undefined"
\* an optional text field that is not set
UndefinedText == <<"undefined">>
\* Question.confidence when the field is not set
NoConfidence == -1

\* a value used in a boolean position: undefined and '' are falsy
Truthy(text) == text # UndefinedText /\ text # <<>>

\* q.confidence || 0
ConfidenceOrZero(q) == IF q.confidence = NoConfidence THEN 0 ELSE q.confidence

\* a question as extractQuestions produces it; options <<>> stands for a
\* missing or empty options array (the code treats both alike). isCorrect is
\* read in boolean positions only, where not set and false are alike
NewQuestion(n, text, options) ==
  [number |-> n, text |-> text, options |-> options,
   questionType |-> Undefined, myAnswer |-> Undefined,
   confidence |-> NoConfidence, reasoning |-> UndefinedText,
   modelUsed |-> Undefined, verifiedAnswer |-> Undefined,
   perplexityAnswer |-> Undefined, perplexityReasoning |-> UndefinedText,
   correctAnswer |-> Undefined, isCorrect |-> FALSE]

\* llmAnswer.model
LlmAnswerModel == "o3-mini"

-----------------------------------------------------------------------------
(* Classifier *)

HcpcsKeywords == {
  <<"h","c","p","c","s">>,
  <<"l","e","v","e","l"," ","i","i"," ","c","o","d","e">>,
  <<"d","u","r","a","b","l","e"," ","m","e","d","i","c","a","l"," ","e","q","u","i","p","m","e","n","t">>,
  <<"p","r","o","s","t","h","e","t","i","c">>}

IcdKeywords == {
  <<"i","c","d","-","1","0">>,
  <<"d","i","a","g","n","o","s","i","s"," ","c","o","d","e">>,
  <<"d","i","a","g","n","o","s","t","i","c"," ","c","o","d","e">>,
  <<"a","c","c","o","r","d","i","n","g"," ","t","o"," ","i","c","d">>}

CptKeywords == {
  <<"c","p","t">>,
  <<"p","r","o","c","e","d","u","r","e"," ","c","o","d","e">>,
  <<"s","u","r","g","i","c","a","l"," ","c","o","d","e">>}

FullText(q) ==
  ToLowerCase(q.text) \o <<" ">> \o ToLowerCase(Join(q.options, <<" ">>))

HasKeyword(q, keywords) == \E kw \in keywords : Includes(FullText(q), kw)

\* some option whose first letter+4-digit match does not start with 'C'
HcpcsOptionRule(q) ==
  \E k \in 1..Len(q.options) :
    LET m == MatchFirst("HCPCS", q.options[k]) IN m # <<>> /\ m[1] # "C"

OptionRule(family, q) ==
  \E k \in 1..Len(q.options) : MatchFirst(family, q.options[k]) # <<>>

\* the rules with the ICD-10 rules tried before the HCPCS option pattern
determineQuestionTypeIcdFirst(q) ==
  IF HasKeyword(q, HcpcsKeywords) THEN "HCPCS"
  ELSE IF HasKeyword(q, IcdKeywords) THEN "ICD-10"
  ELSE IF OptionRule("ICD-10", q) THEN "ICD-10"
  ELSE IF HcpcsOptionRule(q) THEN "HCPCS"
  ELSE IF HasKeyword(q, CptKeywords) THEN "CPT"
  ELSE IF OptionRule("CPT", q) THEN "CPT"
  ELSE "GENERAL"

determineQuestionType(q) ==
  IF HasKeyword(q, HcpcsKeywords) THEN "HCPCS"
  ELSE IF HcpcsOptionRule(q) THEN "HCPCS"
  ELSE IF HasKeyword(q, IcdKeywords) THEN "ICD-10"
  ELSE IF OptionRule("ICD-10", q) THEN "ICD-10"
  ELSE IF HasKeyword(q, CptKeywords) THEN "CPT"
  ELSE IF OptionRule("CPT", q) THEN "CPT"
  ELSE "GENERAL"

-----------------------------------------------------------------------------
(* Keyword match of a description against the question text *)

StopWords == {
  <<"w","h","a","t">>, <<"w","h","i","c","h">>, <<"w","h","e","n">>, <<"w","h","e","r","e">>,
  <<"t","h","i","s">>, <<"t","h","a","t">>, <<"w","i","t","h">>, <<"f","r","o","m">>,
  <<"h","a","v","e">>, <<"c","o","d","e">>, <<"r","e","p","r","e","s","e","n","t","s">>}

\* .replace(/[^\w\s]/g, '')
RECURSIVE StripPunctuation(_)
StripPunctuation(s) ==
  IF s = <<>> THEN <<>>
  ELSE IF Head(s) \in WordChar \cup Space
    THEN <<Head(s)>> \o StripPunctuation(Tail(s))
    ELSE StripPunctuation(Tail(s))

\* .split(/\s+/); cur is the piece being read, inGap tells that the last
\* character read was white space
RECURSIVE SplitWhitespaceFrom(_, _, _)
SplitWhitespaceFrom(s, cur, inGap) ==
  IF s = <<>> THEN <<cur>>
  ELSE IF Head(s) \in Space
    THEN IF inGap THEN SplitWhitespaceFrom(Tail(s), cur, TRUE)
         ELSE <<cur>> \o SplitWhitespaceFrom(Tail(s), <<>>, TRUE)
    ELSE SplitWhitespaceFrom(Tail(s), cur \o <<Head(s)>>, FALSE)

SplitWhitespace(s) == SplitWhitespaceFrom(s, <<>>, FALSE)

extractKeywords(text) ==
  SelectSeq(SplitWhitespace(StripPunctuation(ToLowerCase(text))),
            LAMBDA w : Len(w) > 3 /\ w \notin StopWords)

\* number of the keywords the lower-cased description includes
matchCount(description, keywords) ==
  Cardinality({k \in 1..Len(keywords) :
                 Includes(ToLowerCase(description), keywords[k])})

\* calculateMatchScore(description, keywords) > 0.7, without the division
GoodMatch(description, keywords) ==
  Len(keywords) > 0 /\ 10 * matchCount(description, keywords) > 7 * Len(keywords)

-----------------------------------------------------------------------------
(* The persisted code-description store *)

FamilySet == {"CPT", "ICD-10", "HCPCS"}

\* { "CPT": [], "ICD-10": [], "HCPCS": [] }
EmptyStore == [f \in FamilySet |-> <<>>]

\* a file is absent, or holds a JSON object: family name -> list of entries
NoFile == [exists |-> FALSE, data |-> EmptyStore]
FileOf(data) == [exists |-> TRUE, data |-> data]

Entry(code, description) ==
  [code |-> code, description |-> description, explanation |-> UndefinedText]

\* list.find(item => item.code === code): index of the first such entry, 0 if none
FindIndex(list, code) ==
  IF \E i \in 1..Len(list) : list[i].code = code
    THEN CHOOSE i \in 1..Len(list) :
           list[i].code = code /\ \A j \in 1..(i - 1) : list[j].code # code
    ELSE 0

\* loadCodeDescriptions(state): ok = FALSE stands for the exception it throws
loadCodeDescriptions(useExpl, cache, merged) ==
  LET file == IF useExpl THEN merged ELSE cache
  IN  [ok |-> file.exists, data |-> file.data]

\* if (!cachedCodes[family]) cachedCodes[family] = []
EnsureFamily(data, family) ==
  IF family \in DOMAIN data THEN data ELSE (family :> <<>>) @@ data

\* fs.writeJSON either writes the file or throws
WriteOutcomes == {"written", "error"}

-----------------------------------------------------------------------------
(* codeDescriptions: a Map<string, string>, kept in insertion order *)

MapHas(m, code) == \E i \in 1..Len(m) : m[i].code = code

MapGet(m, code) ==
  IF MapHas(m, code)
    THEN m[CHOOSE i \in 1..Len(m) : m[i].code = code].text
    ELSE UndefinedText

MapSet(m, code, text) ==
  IF MapHas(m, code)
    THEN [i \in 1..Len(m) |->
            IF m[i].code = code THEN [code |-> code, text |-> text] ELSE m[i]]
    ELSE Append(m, [code |-> code, text |-> text])

-----------------------------------------------------------------------------
(* Cache lookup of a family handler *)

\* the grounding text of a cached entry
HitText(family, entry, useExpl) ==
  IF useExpl /\ Truthy(entry.explanation)
    THEN IF family = "CPT"
           THEN entry.explanation
           ELSE entry.description \o entry.explanation
    ELSE entry.description

\* the loop over the extracted codes: hits go to codeDescriptions
RECURSIVE LookupHits(_, _, _, _, _)
LookupHits(family, codes, list, useExpl, m) ==
  IF codes = <<>> THEN m
  ELSE LET i == FindIndex(list, Head(codes))
       IN  LookupHits(family, Tail(codes), list, useExpl,
                      IF i = 0 THEN m
                      ELSE MapSet(m, Head(codes), HitText(family, list[i], useExpl)))

\* ... and misses to codesToFetch, one push per occurrence of the code
LookupMisses(codes, list) ==
  SelectSeq(codes, LAMBDA c : FindIndex(list, c) = 0)

-----------------------------------------------------------------------------
(* Resolvers *)

\* descriptions the external sources can return
Desc1 == <<"P","u","m","p","s">>
Desc2 == <<"O","t","h","e","r">>
Summary1 == <<"S","u","m">>
OtherCode == <<"Z","9","9","9","9">>

\* clinicaltables search API: the code/description pairs of the response
\* (the handler scans data[3] and the top-level pairs the same way, so one
\* format stands for both), or a transport error
ApiOutcomes(code) ==
  {[status |-> "ok", format |-> "v3", pairs |-> <<<<code, Desc1>>>>],
   [status |-> "ok", format |-> "v3", pairs |-> <<<<OtherCode, Desc2>>, <<code, Desc2>>>>],
   [status |-> "ok", format |-> "v3", pairs |-> <<<<OtherCode, Desc2>>>>],
   [status |-> "error", format |-> "v3", pairs |-> <<>>]}

\* the description of the first pair whose code is exactly `code`
\* (both formats are scanned the same way); UndefinedText stands for null
ApiDescription(resp, code) ==
  IF \E i \in 1..Len(resp.pairs) : resp.pairs[i][1] = code
    THEN resp.pairs[CHOOSE i \in 1..Len(resp.pairs) :
                      /\ resp.pairs[i][1] = code
                      /\ \A j \in 1..(i - 1) : resp.pairs[j][1] # code][2]
    ELSE UndefinedText

\* AAPC page: the description found in .sub_head_detail or h1.cpt_code and
\* the summary found in #cpt_layterms or #offlongdesc ('' when not found),
\* or a failed request with its HTTP status
CptOutcomes ==
  {[status |-> 200, description |-> Desc2, summary |-> Summary1],
   [status |-> 200, description |-> <<>>, summary |-> <<>>],
   [status |-> 404, description |-> <<>>, summary |-> <<>>],
   [status |-> 500, description |-> <<>>, summary |-> <<>>]}

CptFullDescription(page) ==
  IF page.summary # <<>> /\ page.description # <<>>
    THEN page.description \o <<" Summary: ">> \o page.summary
  ELSE IF page.summary # <<>> THEN page.summary
  ELSE page.description

CptPlaceholder(code) ==
  <<"CPT code ">> \o code \o <<" - research this code further for accurate information.">>

CptErrorMessage(code, status) ==
  IF status = 404
    THEN <<"CPT code ">> \o code \o <<" - Not found on AAPC website. This may be a test code or requires specialized knowledge. Please research this code further.">>
    ELSE <<"CPT code ">> \o code \o <<" - Unable to retrieve description due to technical error. Please research this code further.">>

ResolverOutcomes(family, code) ==
  IF family = "CPT" THEN CptOutcomes ELSE ApiOutcomes(code)

\* a CPT fetch that records nothing when the page gives no description
CptFetchedTextWithoutPlaceholder(code, out) ==
  IF out.status = 200 /\ CptFullDescription(out) # <<>>
    THEN CptFullDescription(out)
    ELSE UndefinedText

\* the text a fetch yields for the handler; UndefinedText when the handler
\* records nothing for the code
CptFetchedText(code, out) ==
  IF out.status # 200 THEN CptErrorMessage(code, out.status)
  ELSE IF CptFullDescription(out) # <<>> THEN CptFullDescription(out)
  ELSE CptPlaceholder(code)

ApiFetchedText(code, out) ==
  IF out.status = "ok" /\ Truthy(ApiDescription(out, code))
    THEN ApiDescription(out, code)
    ELSE UndefinedText

FetchedText(family, code, out) ==
  IF family = "CPT" THEN CptFetchedText(code, out) ELSE ApiFetchedText(code, out)

-----------------------------------------------------------------------------
(* Answerer: parsing of the LLM text *)

AnswerLabel == <<"A","n","s","w","e","r",":">>
ConfidenceLabel == <<"C","o","n","f","i","d","e","n","c","e",":">>
ReasoningLabel == <<"R","e","a","s","o","n","i","n","g",":">>
AnswerLetters == {"A", "B", "C", "D"}

StartsWithAt(s, i, label) ==
  /\ i + Len(label) - 1 <= Len(s)
  /\ \A k \in 1..Len(label) : s[i + k - 1] = label[k]

\* first position at or after i that holds no white space (\s* is greedy)
RECURSIVE SkipSpace(_, _)
SkipSpace(s, i) ==
  IF i <= Len(s) /\ s[i] \in Space THEN SkipSpace(s, i + 1) ELSE i

\* value of one decimal digit
DigitValue(d) == CHOOSE v \in 0..9 : ToString(v) = d

\* parseInt of the run of n decimal digits that starts at position i
RECURSIVE ParseInt(_, _, _)
ParseInt(s, i, n) ==
  IF n = 0 THEN 0
  ELSE 10 * ParseInt(s, i, n - 1) + DigitValue(s[i + n - 1])

\* String.prototype.trim
RECURSIVE TrimEnd(_)
TrimEnd(s) ==
  IF s # <<>> /\ s[Len(s)] \in Space THEN TrimEnd(SubSeq(s, 1, Len(s) - 1)) ELSE s

RECURSIVE TrimStart(_)
TrimStart(s) ==
  IF s # <<>> /\ Head(s) \in Space THEN TrimStart(Tail(s)) ELSE s

Trim(s) == TrimEnd(TrimStart(s))

\* /Answer:\s*([A-D])/ tried at position i: position of the captured letter,
\* 0 if the expression does not match there
AnswerMatchAt(s, i) ==
  IF StartsWithAt(s, i, AnswerLabel)
    THEN LET p == SkipSpace(s, i + Len(AnswerLabel))
         IN  IF p <= Len(s) /\ s[p] \in AnswerLetters THEN p ELSE 0
    ELSE 0

\* content.match(/Answer:\s*([A-D])/): the leftmost match, from position i on
RECURSIVE AnswerMatchFrom(_, _)
AnswerMatchFrom(s, i) ==
  IF i > Len(s) THEN 0
  ELSE IF AnswerMatchAt(s, i) > 0 THEN AnswerMatchAt(s, i)
  ELSE AnswerMatchFrom(s, i + 1)

AnswerMatch(content) == AnswerMatchFrom(content, 1)

\* /Confidence:\s*(\d+)/ tried at position i: position of the first captured digit
ConfidenceMatchAt(s, i) ==
  IF StartsWithAt(s, i, ConfidenceLabel)
    THEN LET p == SkipSpace(s, i + Len(ConfidenceLabel))
         IN  IF p <= Len(s) /\ s[p] \in Digit THEN p ELSE 0
    ELSE 0

RECURSIVE ConfidenceMatchFrom(_, _)
ConfidenceMatchFrom(s, i) ==
  IF i > Len(s) THEN 0
  ELSE IF ConfidenceMatchAt(s, i) > 0 THEN ConfidenceMatchAt(s, i)
  ELSE ConfidenceMatchFrom(s, i + 1)

ConfidenceMatch(content) == ConfidenceMatchFrom(content, 1)

\* position of the first 'Reasoning:' at or after i, 0 if there is none
RECURSIVE ReasoningLabelFrom(_, _)
ReasoningLabelFrom(s, i) ==
  IF i > Len(s) THEN 0
  ELSE IF StartsWithAt(s, i, ReasoningLabel) THEN i
  ELSE ReasoningLabelFrom(s, i + 1)

\* end of the lazy group (.*?)(?=\n\n|$) read from position p: the first
\* position followed by an empty line or by the end of the text
RECURSIVE LazyEnd(_, _)
LazyEnd(s, p) ==
  IF p > Len(s) THEN p
  ELSE IF p + 1 <= Len(s) /\ s[p] = "\n" /\ s[p + 1] = "\n" THEN p
  ELSE LazyEnd(s, p + 1)

\* content.match(/Reasoning:\s*(.*?)(?=\n\n|$)/s): the captured group, trimmed;
\* found = FALSE when the expression does not match
ReasoningMatch(content) ==
  LET i0 == ReasoningLabelFrom(content, 1)
  IN  IF i0 > 0
        THEN LET from == SkipSpace(content, i0 + Len(ReasoningLabel))
             IN  [found |-> TRUE,
                  text |-> Trim(SubSeq(content, from, LazyEnd(content, from) - 1))]
        ELSE [found |-> FALSE, text |-> <<>>]

\* the block with the answer label alone deciding: a missing confidence is
\* replaced by 5
ParseAnswerLenient(content) ==
  LET a == AnswerMatch(content)
      c == ConfidenceMatch(content)
      r == ReasoningMatch(content)
  IN  IF a > 0
        THEN [parsed |-> TRUE,
              answer |-> content[a],
              confidence |-> IF c > 0 THEN ParseInt(content, c, DigitRun(content, c)) ELSE 5,
              reasoning |-> IF r.found THEN r.text ELSE <<>>]
        ELSE [parsed |-> FALSE,
              answer |-> "A",
              confidence |-> 5,
              reasoning |-> <<"Could not parse model response">>]

\* the block shared by handleGeneralQuestion and useO4MiniForQuestion
ParseAnswer(content) ==
  LET a == AnswerMatch(content)
      c == ConfidenceMatch(content)
      r == ReasoningMatch(content)
  IN  IF a > 0 /\ c > 0
        THEN [parsed |-> TRUE,
              answer |-> content[a],
              confidence |-> ParseInt(content, c, DigitRun(content, c)),
              reasoning |-> IF r.found THEN r.text ELSE <<>>]
        ELSE [parsed |-> FALSE,
              answer |-> "A",
              confidence |-> 5,
              reasoning |-> <<"Could not parse model response">>]

-----------------------------------------------------------------------------
(* Answer step: answerQuestionsWithConfidence and the family handlers *)

\* the answering model returns a text, or the invocation throws
AnswerContents ==
  {<<"A","n","s","w","e","r",":"," ","B","\n","C","o","n","f","i","d","e","n","c","e",":"," ","7","\n","R","e","a","s","o","n","i","n","g",":"," ","o","k">>,
   <<"A","n","s","w","e","r",":"," ","B">>}

LlmOutcomes ==
  {[status |-> "ok", content |-> c] : c \in AnswerContents}
    \cup {[status |-> "error", content |-> <<>>]}

NoFrame ==
  [family |-> "none", cachedCodes |-> EmptyStore, codeDescriptions |-> <<>>,
   codesToFetch |-> <<>>, fi |-> 0]

\* const batchSize = 8
BatchSize == 8

\* an outer loop that leaves one question out between two batches
NextBatchStartSkipping(i, size) == i + size + 1

\* i += batchSize
NextBatchStart(i, size) == i + size

\* the position after the last question of batch = questions.slice(i, i + batchSize)
BatchEnd == IF batchStart + batchSize < Len(questions)
              THEN batchStart + batchSize ELSE Len(questions)

\* the loops go on to the next question: the next of the batch, or the first
\* of the next batch; qi is left past the list when there is no next batch
LoopAdvances ==
  IF qi < BatchEnd
    THEN qi' = qi + 1 /\ UNCHANGED batchStart
    ELSE /\ batchStart' = NextBatchStart(batchStart, batchSize)
         /\ qi' = IF batchStart' < Len(questions)
                    THEN batchStart' + 1 ELSE Len(questions) + 1

\* the record pushed by the catch block of the batch loop
ErrorRecord(q) ==
  [q EXCEPT !.myAnswer = "A", !.confidence = 5,
            !.reasoning = <<"Error occurred during processing">>]

PushErrorRecord(q) ==
  /\ answeredQuestions' = Append(answeredQuestions, ErrorRecord(q))
  /\ threwLog' = Append(threwLog, q.number)
  /\ LoopAdvances
  /\ pc' = "next"
  /\ frame' = NoFrame

\* the loop without its catch: the error of one question ends the batch
HandlerThrewAborts(q) ==
  /\ threwLog' = Append(threwLog, q.number)
  /\ pc' = "done"
  /\ frame' = NoFrame
  /\ UNCHANGED <<answeredQuestions, qi, batchStart>>

\* catch (questionError) of answerQuestionsWithConfidence: the loop goes on
HandlerThrew(q) == PushErrorRecord(q)

\* a handler returns after pushing its record
HandlerReturned(record) ==
  /\ answeredQuestions' = Append(answeredQuestions, record)
  /\ LoopAdvances
  /\ pc' = "next"
  /\ frame' = NoFrame
  /\ UNCHANGED threwLog

\* the record pushed by handleGeneralQuestion
GeneralRecord(q, content) ==
  LET r == ParseAnswer(content)
  IN  IF r.parsed
        THEN [q EXCEPT !.myAnswer = r.answer, !.confidence = r.confidence,
                       !.reasoning = r.reasoning, !.modelUsed = LlmAnswerModel]
        ELSE [q EXCEPT !.myAnswer = "A", !.confidence = 5,
                       !.reasoning = <<"Could not parse model response">>]

\* the record pushed by a family handler from useO4MiniForQuestion's result
FamilyRecord(q, content) ==
  LET r == ParseAnswer(content)
  IN  [q EXCEPT !.myAnswer = r.answer, !.confidence = r.confidence,
                !.reasoning = r.reasoning, !.modelUsed = LlmAnswerModel]

\* a handler that never takes an option from the descriptions
HcpcsMatchOptionNever(q, m) == 0

\* handleHCPCSQuestion: the first option whose code has a description that
\* matches the question keywords; 0 if there is none
HcpcsMatchOption(q, m) ==
  LET good(k) ==
        LET code == MatchFirst("HCPCS", q.options[k])
        IN  /\ code # <<>>
            /\ Truthy(MapGet(m, code))
            /\ GoodMatch(MapGet(m, code), extractKeywords(q.text))
  IN  IF \E k \in 1..Len(q.options) : good(k)
        THEN CHOOSE k \in 1..Len(q.options) :
               good(k) /\ \A j \in 1..(k - 1) : ~good(j)
        ELSE 0

HcpcsMatchRecord(q, m, k) ==
  LET code == MatchFirst("HCPCS", q.options[k])
  IN  [q EXCEPT !.myAnswer = UpperSeq[k], !.confidence = 8,
                !.reasoning = <<"HCPCS code ">> \o code \o <<" description \"">>
                              \o MapGet(m, code)
                              \o <<"\" matches the question context. Verification confirms this is the correct code.">>,
                !.modelUsed = LlmAnswerModel]

\* after the cache is loaded: hits to codeDescriptions, misses to codesToFetch
BeginLookup(family, codes, data) ==
  LET cached == EnsureFamily(data, family)
      misses == LookupMisses(codes, cached[family])
  IN  /\ frame' = [family |-> family,
                   cachedCodes |-> cached,
                   codeDescriptions |->
                     LookupHits(family, codes, cached[family], useExplanations, <<>>),
                   codesToFetch |-> misses,
                   fi |-> 1]
      /\ pc' = IF misses # <<>> THEN "fetch" ELSE "answer"
      /\ UNCHANGED <<answeredQuestions, threwLog, qi, batchStart>>

\* a handler that always takes the branch with the cache
RoutesToGeneralNever(codes) == FALSE

\* the else branch of 'if (codes.length > 0)': handleGeneralQuestion
RoutesToGeneral(codes) == codes = <<>>

\* classification, extraction and cache load of the next question
StartQuestion ==
  /\ pc = "next"
  /\ batchStart < Len(questions)
  /\ LET type == determineQuestionType(questions[qi])
         q == [questions[qi] EXCEPT !.questionType = type]
         codes == IF type = "GENERAL" THEN <<>> ELSE ExtractCodes(type, q.options)
         loaded == loadCodeDescriptions(useExplanations, cacheFile, mergedFile)
     IN  /\ questions' = [questions EXCEPT ![qi] = q]
         /\ IF RoutesToGeneral(codes)
              THEN /\ frame' = [NoFrame EXCEPT !.family = "GENERAL"]
                   /\ pc' = "answer"
                   /\ UNCHANGED <<cacheFile, answeredQuestions, threwLog, qi, batchStart>>
              ELSE IF loaded.ok
                THEN /\ BeginLookup(type, codes, loaded.data)
                     /\ UNCHANGED cacheFile
                ELSE \E w \in WriteOutcomes :
                       IF w = "written"
                         THEN /\ cacheFile' = FileOf(EmptyStore)
                              /\ BeginLookup(type, codes, EmptyStore)
                         ELSE /\ HandlerThrew(q)
                              /\ UNCHANGED cacheFile
  /\ UNCHANGED <<useExplanations, mergedFile, fetchLog, batchSize>>
  /\ UNCHANGED <<verifyVars, parseVars, scoreVars, classifyVars, queryVars>>

\* setTimeout(resolve, 3000)
CptDelay == 3000

\* a CPT handler that waits after a page it could read only
FetchDelayAfterSuccess(family, out) ==
  IF family = "CPT" /\ out.status = 200 THEN CptDelay ELSE 0

\* the time a handler waits after a fetch, whatever the fetch gave, before it
\* goes on: the CPT loop ends each pass with the delay, the other two loops
\* have none
FetchDelay(family, out) == IF family = "CPT" THEN CptDelay ELSE 0

\* the handler's state after the resolver answered for `code`
AfterFetch(f, code, out) ==
  LET text == FetchedText(f.family, code, out)
  IN  IF Truthy(text)
        THEN [f EXCEPT !.codeDescriptions = MapSet(@, code, text),
                       !.cachedCodes[f.family] = Append(@, Entry(code, text)),
                       !.fi = @ + 1]
        ELSE [f EXCEPT !.fi = @ + 1]

\* one pass of the fetch loop: one resolver invocation
Fetch ==
  /\ pc = "fetch"
  /\ LET code == frame.codesToFetch[frame.fi]
     IN  \E out \in ResolverOutcomes(frame.family, code) :
           /\ frame' = AfterFetch(frame, code, out)
           /\ fetchLog' = Append(fetchLog,
                [family |-> frame.family, code |-> code,
                 waited |-> FetchDelay(frame.family, out)])
  /\ pc' = IF frame.fi = Len(frame.codesToFetch) THEN "save" ELSE "fetch"
  /\ UNCHANGED <<questions, useExplanations, cacheFile, mergedFile, qi,
                 answeredQuestions, threwLog, batchSize, batchStart>>
  /\ UNCHANGED <<verifyVars, parseVars, scoreVars, classifyVars, queryVars>>

\* fs.writeJSON(CACHED_CODE_DESCRIPTIONS_JSON, cachedCodes) after the loop
Save ==
  /\ pc = "save"
  /\ \E w \in WriteOutcomes :
       IF w = "written"
         THEN /\ cacheFile' = FileOf(frame.cachedCodes)
              /\ pc' = "answer"
              /\ UNCHANGED <<frame, qi, batchStart, answeredQuestions, threwLog>>
         ELSE /\ HandlerThrew(questions[qi])
              /\ UNCHANGED cacheFile
  /\ UNCHANGED <<questions, useExplanations, mergedFile, fetchLog, batchSize>>
  /\ UNCHANGED <<verifyVars, parseVars, scoreVars, classifyVars, queryVars>>

\* the answer of the question: keyword match (HCPCS) or the answering model
Answer ==
  /\ pc = "answer"
  /\ LET q == questions[qi]
         k == IF frame.family = "HCPCS"
                THEN HcpcsMatchOption(q, frame.codeDescriptions) ELSE 0
     IN  IF k > 0
           THEN /\ HandlerReturned(HcpcsMatchRecord(q, frame.codeDescriptions, k))
                /\ UNCHANGED questions
           ELSE \E r \in LlmOutcomes :
                  IF r.status = "error"
                    THEN /\ HandlerThrew(q)
                         /\ UNCHANGED questions
                  ELSE IF frame.family = "GENERAL"
                    THEN /\ HandlerReturned(GeneralRecord(q, r.content))
                         /\ UNCHANGED questions
                  ELSE IF frame.family = "HCPCS"
                    THEN /\ questions' = [questions EXCEPT ![qi].modelUsed = LlmAnswerModel]
                         /\ HandlerReturned(FamilyRecord(questions'[qi], r.content))
                    ELSE /\ HandlerReturned(FamilyRecord(q, r.content))
                         /\ UNCHANGED questions
  /\ UNCHANGED <<useExplanations, cacheFile, mergedFile, fetchLog, batchSize>>
  /\ UNCHANGED <<verifyVars, parseVars, scoreVars, classifyVars, queryVars>>

\* the loop is over: return answeredQuestions
Finish ==
  /\ pc = "next"
  /\ batchStart >= Len(questions)
  /\ pc' = "done"
  /\ UNCHANGED <<questions, qi, fileVars, answerVars>>
  /\ UNCHANGED <<verifyVars, parseVars, scoreVars, classifyVars, queryVars>>

-----------------------------------------------------------------------------
(* Inputs of the answer step *)

MaxQuestions == 2

QuestionSeq ==
  <<[text |-> <<"E","x","c","i","s","i","o","n">>, options |-> <<<<"A","."," ","1","1","4","0","0">>, <<"B","."," ","1","1","4","0","0">>>>],
    [text |-> <<"W","h","i","c","h"," ","p","u","m","p","s">>, options |-> <<<<"A","."," ","E","0","7","8","1">>, <<"B","."," ","n","o","n","e">>>>],
    [text |-> <<"D","i","a","g","n","o","s","i","s">>, options |-> <<<<"A","."," ","E","1","1",".","9">>, <<"B","."," ","n","o","n","e">>>>],
    [text |-> <<"M","o","d","i","f","i","e","r">>, options |-> <<<<"A","."," ","y","e","s">>, <<"B","."," ","n","o">>>>],
    [text |-> <<"R","e","m","o","v","a","l">>, options |-> <<<<"A","."," ","1","1","4","0","0">>, <<"B","."," ","1","1","6","0","0">>>>],
    [text |-> <<"H","C","P","C","S"," ","u","s","e">>, options |-> <<<<"A","."," ","y","e","s">>, <<"B","."," ","n","o">>>>]>>

\* the ways to pick n questions of QuestionSeq, a question more than once
\* if wanted; the families do not share entries of the store, so the picks
\* are taken in the order of QuestionSeq
QuestionPicks(n) ==
  {p \in [1..n -> DOMAIN QuestionSeq] : \A i \in 1..(n - 1) : p[i] <= p[i + 1]}

\* question lists of 1..MaxQuestions questions, numbered in order
QuestionLists ==
  UNION {{[i \in 1..n |-> NewQuestion(i, QuestionSeq[p[i]].text, QuestionSeq[p[i]].options)] :
            p \in QuestionPicks(n)} : n \in 1..MaxQuestions}

SeededStore ==
  [EmptyStore EXCEPT !["CPT"] = <<Entry(<<"1","1","4","0","0">>, Desc2)>>]

\* the merged file made from SeededStore: explanations and metadata added
SeededMergedStore ==
  ("metadata" :> <<"merge">>) @@
  [SeededStore EXCEPT !["CPT"][1].explanation = <<"E","x","p","l">>]

\* without explanations the merged file is not read; it is made from an
\* existing cache file
InitialFiles ==
  {[useExplanations |-> FALSE, cacheFile |-> NoFile, mergedFile |-> NoFile],
   [useExplanations |-> FALSE, cacheFile |-> FileOf(SeededStore), mergedFile |-> NoFile],
   [useExplanations |-> TRUE, cacheFile |-> FileOf(SeededStore), mergedFile |-> NoFile],
   [useExplanations |-> TRUE, cacheFile |-> FileOf(SeededStore),
    mergedFile |-> FileOf(SeededMergedStore)]}

\* the parts of the state a step does not use
IdleAnswer ==
  /\ batchSize = BatchSize
  /\ batchStart = 0
  /\ frame = NoFrame
  /\ answeredQuestions = <<>>
  /\ fetchLog = <<>>
  /\ threwLog = <<>>

IdleFiles ==
  /\ useExplanations = FALSE
  /\ cacheFile = NoFile
  /\ mergedFile = NoFile

\* no provider has been invoked yet
NoResponse == [status |-> "none", content |-> <<>>, model |-> "none"]

IdleVerify ==
  /\ variant = "none"
  /\ entryQuestions = <<>>
  /\ verifiedQuestions = <<>>
  /\ strategy = 0
  /\ providerLog = <<>>
  /\ attemptErrors = <<>>
  /\ lastResponse = NoResponse
  /\ sampledQuestions = <<>>

IdleParse ==
  /\ llmContent = <<>>
  /\ parsedAnswer = <<>>

\* a JSON file holding an array that does not exist yet
NoArrayFile == [exists |-> FALSE, items |-> <<>>]

IdleScore ==
  /\ answerKey = <<>>
  /\ testResults = <<>>
  /\ performanceLogFile = <<>>
  /\ performanceHistoryFile = NoArrayFile

IdleClassify ==
  /\ classifyLog = <<>>

\* PerplexityAPI.query is not running
NoCall == [apiKey |-> FALSE, modelType |-> "none", usePro |-> FALSE]

IdleQuery ==
  /\ queryCall = NoCall
  /\ requestLog = <<>>

\* the inputs of answerQuestionsWithConfidence and the state it starts in
AnswerInputs ==
  /\ questions \in QuestionLists
  /\ \E f \in InitialFiles :
       /\ useExplanations = f.useExplanations
       /\ cacheFile = f.cacheFile
       /\ mergedFile = f.mergedFile
  /\ pc = "next"
  /\ qi = 1
  /\ frame = NoFrame
  /\ answeredQuestions = <<>>
  /\ fetchLog = <<>>
  /\ threwLog = <<>>
  /\ batchStart = 0
  /\ IdleVerify /\ IdleParse /\ IdleScore /\ IdleClassify /\ IdleQuery

InitAnswer ==
  /\ AnswerInputs
  /\ batchSize = BatchSize

NextAnswer == StartQuestion \/ Fetch \/ Save \/ Answer \/ Finish

SpecAnswer == InitAnswer /\ [][NextAnswer]_vars

-----------------------------------------------------------------------------
(* Properties of the answer step *)

\* number of resolver invocations for (family, code) so far
FetchCount(family, code) ==
  Cardinality({i \in 1..Len(fetchLog) :
                 fetchLog[i].family = family /\ fetchLog[i].code = code})

NoDuplicateCodes(list) ==
  \A i, j \in 1..Len(list) : list[i].code = list[j].code => i = j

\* C1 (as claimed): cache-hit invariant. In one run of
\* answerQuestionsWithConfidence the resolver of a family is invoked at most
\* once for a code, whether the code recurs in one question's options or in
\* a later question, and whatever the first fetch returned.
C1_ResolverInvokedAtMostOnce ==
  \A i \in 1..Len(fetchLog) : FetchCount(fetchLog[i].family, fetchLog[i].code) <= 1

\* C2: batch robustness. Whatever failed, the result holds one record per
\* processed question, in input order; the loop stops only after the last
\* question; a question whose handler threw has the fallback record.
C2_BatchRobust ==
  /\ Len(answeredQuestions) = qi - 1
  /\ \A i \in 1..Len(answeredQuestions) :
       /\ answeredQuestions[i].number = questions[i].number
       /\ (\E t \in 1..Len(threwLog) : threwLog[t] = questions[i].number)
            => /\ answeredQuestions[i].myAnswer = "A"
               /\ answeredQuestions[i].confidence = 5
               /\ answeredQuestions[i].reasoning = <<"Error occurred during processing">>
  /\ pc = "done" => Len(answeredQuestions) = Len(questions)

\* C2 witness: the first of two questions threw, the second was answered
\* from a parsed response, and the run is over.
C2_Witness ==
  /\ pc = "done"
  /\ Len(questions) = 2
  /\ threwLog = <<1>>
  /\ answeredQuestions[2].confidence = 7

\* C8 (as claimed): fail-soft placeholder in every family. Once a handler has
\* saved the store after its fetch loop, every code it fetched has an entry
\* in the persisted store, whatever the resolver returned.
C8_FetchedCodesPersisted ==
  (pc = "answer" /\ frame.codesToFetch # <<>>)
    => \A k \in 1..Len(frame.codesToFetch) :
         /\ frame.family \in DOMAIN cacheFile.data
         /\ FindIndex(cacheFile.data[frame.family], frame.codesToFetch[k]) > 0

\* C9 (as claimed): unique cache entries. No family list of the persisted
\* store holds two entries with the same code.
C9_UniqueCacheEntries ==
  \A f \in FamilySet \cap DOMAIN cacheFile.data : NoDuplicateCodes(cacheFile.data[f])

\* C11 (as claimed): cached descriptions are stable. An entry of the
\* persisted store is still there, with the same description, after every
\* step: no handler run and no failed cache load removes or changes it.
C11_DescriptionsStable ==
  [][\A f \in FamilySet \cap DOMAIN cacheFile.data :
       \A i \in 1..Len(cacheFile.data[f]) :
         /\ f \in DOMAIN cacheFile'.data
         /\ \E j \in 1..Len(cacheFile'.data[f]) :
              /\ cacheFile'.data[f][j].code = cacheFile.data[f][i].code
              /\ cacheFile'.data[f][j].description = cacheFile.data[f][i].description]_vars

\* C12 (as claimed): cache round trip. When a handler begins its lookup, a
\* code of the question that a handler of this run has fetched and whose
\* entry is in the persisted store is a hit: the handler gets the persisted
\* description for it and does not put it in codesToFetch, whichever value
\* useExplanations has.
C12_RoundTrip ==
  [][(pc = "next" /\ qi <= Len(questions) /\ pc' # "next") =>
       LET type == determineQuestionType(questions[qi])
           codes == IF type = "GENERAL" THEN <<>>
                    ELSE ExtractCodes(type, questions[qi].options)
       IN  \A k \in 1..Len(codes) :
             LET i == IF type \in DOMAIN cacheFile.data
                        THEN FindIndex(cacheFile.data[type], codes[k]) ELSE 0
             IN  (i > 0 /\ FetchCount(type, codes[k]) > 0)
                   => /\ MapGet(frame'.codeDescriptions, codes[k])
                           = cacheFile.data[type][i].description
                      /\ \A m \in 1..Len(frame'.codesToFetch) :
                           frame'.codesToFetch[m] # codes[k]]_vars

\* the entries a family has in a store
EntriesOf(data, f) == IF f \in DOMAIN data THEN data[f] ELSE <<>>

\* C34: append-only cache file. A step changes cached_code_descriptions.json
\* only by appending entries of a code and a description to the lists the
\* file held before: the entries it held stay in place, no entry it gains
\* has an explanation, and it gains no merge metadata, whichever value
\* useExplanations has.
C34_CacheAppendOnly ==
  [][cacheFile' # cacheFile =>
       /\ "metadata" \notin DOMAIN cacheFile'.data
       /\ \A f \in FamilySet :
            LET old == EntriesOf(cacheFile.data, f)
                new == EntriesOf(cacheFile'.data, f)
            IN  /\ Len(new) >= Len(old)
                /\ SubSeq(new, 1, Len(old)) = old
                /\ \A j \in (Len(old) + 1)..Len(new) :
                     new[j].explanation = UndefinedText]_vars

\* the handler of question i has returned without throwing
Finished(i) ==
  /\ i < qi
  /\ \A t \in 1..Len(threwLog) : threwLog[t] # questions[i].number

\* C19 (as claimed): explanation mode on a cache hit. In every family
\* handler the text kept for a code found in the loaded store is the entry's
\* description followed by its explanation when useExplanations is on and
\* the entry has an explanation, and the description alone otherwise.
C19_HitText ==
  (pc \in {"fetch", "save", "answer"} /\ frame.family \in FamilySet) =>
    \A i \in 1..Len(frame.codeDescriptions) :
      LET code == frame.codeDescriptions[i].code
          list == frame.cachedCodes[frame.family]
          e == list[FindIndex(list, code)]
      IN  (\A m \in 1..Len(frame.codesToFetch) : frame.codesToFetch[m] # code)
            => frame.codeDescriptions[i].text =
                 IF useExplanations /\ Truthy(e.explanation)
                   THEN e.description \o e.explanation
                   ELSE e.description

\* the descriptions a CPT entry can have: the stored one, or what a fetch gave
CptDescriptions(code) ==
  {Desc2} \cup {CptFetchedText(code, out) : out \in CptOutcomes}

\* C20: CPT resolution with explanations off. Once handleCPTQuestions has
\* returned for a question, every CPT code of its options has an entry in
\* the persisted store: the stored description when the code was never
\* fetched, else the fetched description or a placeholder; and while the same
\* question is handled again no fetch is made.
C20_CptResolution ==
  ~useExplanations =>
    /\ \A i \in 1..Len(questions) :
         (Finished(i) /\ questions[i].questionType = "CPT") =>
           LET codes == ExtractCodes("CPT", questions[i].options)
               list == cacheFile.data["CPT"]
           IN  \A k \in 1..Len(codes) :
                 LET j == FindIndex(list, codes[k])
                 IN  /\ cacheFile.exists
                     /\ j > 0
                     /\ list[j].description \in CptDescriptions(codes[k])
                     /\ FetchCount("CPT", codes[k]) = 0
                          => list[j] = SeededStore["CPT"][1]
    /\ (pc \in {"fetch", "save"} /\ frame.family = "CPT") =>
         \A i \in 1..(qi - 1) :
           (Finished(i) /\ questions[i].text = questions[qi].text
              /\ questions[i].options = questions[qi].options) => FALSE

\* C20 witness: the store knew 11400 only, the site was unreachable; the
\* question with 11400 and 11600 was handled twice, with one fetch in all,
\* and the store holds the stored description and a placeholder.
C20_Witness ==
  /\ ~useExplanations
  /\ pc = "done"
  /\ Len(questions) = 2
  /\ questions[1].options = QuestionSeq[5].options
  /\ questions[2].options = QuestionSeq[5].options
  /\ threwLog = <<>>
  /\ Len(fetchLog) = 1
  /\ fetchLog[1].family = "CPT"
  /\ fetchLog[1].code = <<"1","1","6","0","0">>
  /\ cacheFile.data["CPT"] =
       <<Entry(<<"1","1","4","0","0">>, Desc2),
         Entry(<<"1","1","6","0","0">>, CptErrorMessage(<<"1","1","6","0","0">>, 500))>>

\* the question goes to a family handler and no option holds a code of
\* that family's pattern
FamilyWithoutCodes(q) ==
  LET type == determineQuestionType(q)
  IN  type \in FamilySet /\ ExtractCodes(type, q.options) = <<>>

FetchedAndRecorded ==
  {c \in {frame.codesToFetch[j] : j \in 1..(frame.fi - 1)} :
     FindIndex(frame.cachedCodes[frame.family], c) # 0}

\* C28 (as claimed): flush after each fetch. When the handler is about to
\* start a fetch, the store file holds the entry of every code it has
\* fetched before.
C28_FlushAfterEachFetch ==
  pc = "fetch" =>
    \A c \in FetchedAndRecorded :
      /\ cacheFile.exists
      /\ FindIndex(cacheFile.data[frame.family], c) # 0

-----------------------------------------------------------------------------
(* Verification: verifyLowConfidenceAnswers *)

\* the gate of the verification step
ConfidenceThreshold == 6

\* the gate one step too wide
IsLowConfidenceInclusive(q) == ConfidenceOrZero(q) <= ConfidenceThreshold

\* a threshold that leaves confidence 5 out
IsLowConfidenceBelowFallback(q) == ConfidenceOrZero(q) < ConfidenceThreshold - 1

\* q => (q.confidence || 0) < 6
IsLowConfidence(q) == ConfidenceOrZero(q) < ConfidenceThreshold

RECURSIVE LowConfidenceFrom(_, _)
LowConfidenceFrom(qs, i) ==
  IF i > Len(qs) THEN <<>>
  ELSE (IF IsLowConfidence(qs[i]) THEN <<i>> ELSE <<>>) \o LowConfidenceFrom(qs, i + 1)

\* questions.filter(...): the positions of the low-confidence questions
lowConfidenceQuestions(qs) == LowConfidenceFrom(qs, 1)

\* verifiedQuestions.findIndex(q => q.number === n); 0 stands for -1
RECURSIVE FindNumberFrom(_, _, _)
FindNumberFrom(list, n, i) ==
  IF i > Len(list) THEN 0
  ELSE IF list[i].number = n THEN i
  ELSE FindNumberFrom(list, n, i + 1)

FindIndexByNumber(list, n) == FindNumberFrom(list, n, 1)

\* A provider's text is a sequence of tokens: the fence, the word json, white
\* space, a JSON text, or prose.
\* the token that stands for the three backquotes of a code fence
Fence == "<fence>"
JsonTag == "json"
Blank == {"\n", " "}

JsonChange == "{\"reasoningSummary\":\"B fits\",\"finalAnswer\":\"B\",\"confidence\":8}"
JsonConfirm == "{\"reasoningSummary\":\"A fits\",\"finalAnswer\":\"A\",\"confidence\":9}"
JsonConfirmLow == "{\"reasoningSummary\":\"A, unsure\",\"finalAnswer\":\"A\",\"confidence\":3}"
JsonChangeMedium == "{\"reasoningSummary\":\"C, likely\",\"finalAnswer\":\"C\",\"confidence\":7}"
JsonNoLetter == "{\"reasoningSummary\":\"B or C\",\"finalAnswer\":\"B or C\",\"confidence\":8}"
JsonEmptyObject == "{}"
JsonNull == "null"
JsonBroken == "{\"finalAnswer\":"

\* JSON.parse of one JSON text
JsonParse(text) ==
  CASE text = JsonChange ->
         [kind |-> "object", reasoningSummary |-> "B fits", finalAnswer |-> "B", confidence |-> 8]
    [] text = JsonConfirm ->
         [kind |-> "object", reasoningSummary |-> "A fits", finalAnswer |-> "A", confidence |-> 9]
    [] text = JsonConfirmLow ->
         [kind |-> "object", reasoningSummary |-> "A, unsure", finalAnswer |-> "A", confidence |-> 3]
    [] text = JsonChangeMedium ->
         [kind |-> "object", reasoningSummary |-> "C, likely", finalAnswer |-> "C", confidence |-> 7]
    [] text = JsonNoLetter ->
         [kind |-> "object", reasoningSummary |-> "B or C", finalAnswer |-> "B or C", confidence |-> 8]
    [] text = JsonEmptyObject ->
         [kind |-> "object", reasoningSummary |-> Undefined, finalAnswer |-> Undefined,
          confidence |-> NoConfidence]
    [] text = JsonNull ->
         [kind |-> "null", reasoningSummary |-> Undefined, finalAnswer |-> Undefined,
          confidence |-> NoConfidence]
    [] OTHER ->
         [kind |-> "SyntaxError", reasoningSummary |-> Undefined, finalAnswer |-> Undefined,
          confidence |-> NoConfidence]

\* content.lastIndexOf(fence + 'json'); 0 stands for -1
RECURSIVE LastJsonBlockFrom(_, _)
LastJsonBlockFrom(content, i) ==
  IF i < 1 THEN 0
  ELSE IF i < Len(content) /\ content[i] = Fence /\ content[i + 1] = JsonTag THEN i
  ELSE LastJsonBlockFrom(content, i - 1)

LastIndexOfJsonBlock(content) == LastJsonBlockFrom(content, Len(content))

\* content.lastIndexOf(fence)
RECURSIVE LastFenceFrom(_, _)
LastFenceFrom(content, i) ==
  IF i < 1 THEN 0
  ELSE IF content[i] = Fence THEN i
  ELSE LastFenceFrom(content, i - 1)

LastIndexOfFence(content) == LastFenceFrom(content, Len(content))

\* content.split(fence + 'json')[0]: the text before the first json fence
RECURSIVE FirstJsonBlockFrom(_, _)
FirstJsonBlockFrom(content, i) ==
  IF i >= Len(content) THEN Len(content) + 1
  ELSE IF content[i] = Fence /\ content[i + 1] = JsonTag THEN i
  ELSE FirstJsonBlockFrom(content, i + 1)

BeforeFirstJsonBlock(content) == SubSeq(content, 1, FirstJsonBlockFrom(content, 1) - 1)

\* trim() of a token sequence
RECURSIVE TrimTokensEnd(_)
TrimTokensEnd(s) ==
  IF s # <<>> /\ s[Len(s)] \in Blank THEN TrimTokensEnd(SubSeq(s, 1, Len(s) - 1)) ELSE s

RECURSIVE TrimTokensStart(_)
TrimTokensStart(s) ==
  IF s # <<>> /\ Head(s) \in Blank THEN TrimTokensStart(Tail(s)) ELSE s

TrimTokens(s) == TrimTokensEnd(TrimTokensStart(s))

\* content.substring(jsonBlockStart + 7, content.lastIndexOf(fence)): when the
\* last fence is the json fence itself the arguments are swapped and the
\* result is the fence with its tag
JsonString(content) ==
  LET start == LastIndexOfJsonBlock(content)
      end == LastIndexOfFence(content)
  IN  IF end > start THEN SubSeq(content, start + 2, end - 1) ELSE <<Fence, JsonTag>>

\* JSON.parse(jsonString): white space around the one JSON text is allowed
JsonDocument(jsonString) ==
  LET body == SelectSeq(jsonString, LAMBDA tok : tok \notin Blank)
  IN  IF Len(body) = 1 THEN JsonParse(body[1]) ELSE JsonParse(JsonBroken)

\* what a strategy makes of the provider's text
FailedAttempt(error) ==
  [ok |-> FALSE, error |-> error, result |-> JsonParse(JsonEmptyObject),
   analysis |-> <<>>]

\* the try block of one strategy, from the provider's answer to the parsed
\* result: a missing json fence throws, JSON.parse throws on a broken text,
\* and reading result.reasoningSummary throws on null
ParseResponse(out) ==
  IF out.status = "error" THEN FailedAttempt("provider error")
  ELSE IF LastIndexOfJsonBlock(out.content) = 0 THEN FailedAttempt("no json block")
  ELSE LET doc == JsonDocument(JsonString(out.content))
       IN  IF doc.kind = "SyntaxError" THEN FailedAttempt("SyntaxError")
           ELSE IF doc.kind = "null" THEN FailedAttempt("TypeError")
           ELSE [ok |-> TRUE, error |-> "none", result |-> doc,
                 analysis |-> TrimTokens(BeforeFirstJsonBlock(out.content))]

\* the strategies of the two versions of verifyLowConfidenceAnswers
PerplexityStrategies == {"Perplexity Reasoning Pro", "Perplexity Search Pro"}

Chain(v) ==
  IF v = "chain"
    THEN <<"Perplexity Reasoning Pro", "Perplexity Search Pro", "GPT-4o Fallback">>
    ELSE <<"LLM">>

\* fullReasoning
FullReasoning(label, p) ==
  <<label, "Analysis:">> \o p.analysis \o <<"Summary:", p.result.reasoningSummary>>

\* a write that also replaces the first answer
VerifiedRecordOverwriting(rec, label, p) ==
  [rec EXCEPT !.myAnswer = p.result.finalAnswer,
              !.verifiedAnswer = p.result.finalAnswer,
              !.confidence = p.result.confidence,
              !.reasoning = FullReasoning(label, p)]

\* the object spread written to verifiedQuestions[questionIndex]
VerifiedRecord(rec, label, p) ==
  IF label \in PerplexityStrategies
    THEN [rec EXCEPT !.perplexityAnswer = p.result.finalAnswer,
                     !.perplexityReasoning = FullReasoning(label, p),
                     !.verifiedAnswer = p.result.finalAnswer,
                     !.confidence = p.result.confidence,
                     !.reasoning = FullReasoning(label, p)]
    ELSE [rec EXCEPT !.verifiedAnswer = p.result.finalAnswer,
                     !.confidence = p.result.confidence,
                     !.reasoning = FullReasoning(label, p)]

\* the write moved out of the try block: it happens whatever the attempt gave
AfterAttemptUnguarded(rec, label, p) == VerifiedRecord(rec, label, p)

\* one strategy's effect on the record: the write is the last statement of
\* the try block, the catch block only logs
AfterAttempt(rec, label, p) == IF p.ok THEN VerifiedRecord(rec, label, p) ELSE rec

\* the chain without 'if (success) continue'
TryNextStrategyAlways(success) == TRUE

\* if (success) continue
TryNextStrategy(success) == ~success

\* what a provider may answer
ProviderContents ==
  {<<"Option B fits.", "\n", Fence, JsonTag, "\n", JsonChange, "\n", Fence>>,
   <<"Probably A.", "\n", Fence, JsonTag, "\n", JsonConfirmLow, "\n", Fence, "\n">>,
   <<Fence, JsonTag, JsonConfirm, Fence, "\n", "Hope this helps.">>,
   <<Fence, JsonTag, JsonEmptyObject, Fence>>,
   <<"I cannot tell.">>,
   <<Fence, JsonTag, JsonBroken, Fence>>,
   <<Fence, JsonTag, JsonChange>>,
   <<Fence, JsonTag, JsonNull, Fence>>}

\* what a provider may answer in a run that goes on to the challenge step: an
\* answer held with medium confidence, an answer that names no single
\* option, a confirmation, and a text without a JSON block
PipelineContents ==
  {<<Fence, JsonTag, "\n", JsonChangeMedium, "\n", Fence>>,
   <<Fence, JsonTag, "\n", JsonNoLetter, "\n", Fence>>,
   <<Fence, JsonTag, JsonConfirm, Fence, "\n", "Hope this helps.">>,
   <<"I cannot tell.">>}

\* a call that threw
ProviderError == [status |-> "error", content |-> <<>>, model |-> "none"]

\* llmVerify: modelName "gpt-4o"
VerifyModel == "gpt-4o"

\* the switch of PerplexityAPI.query: the model of a request
PerplexityModel(modelType, usePro) ==
  IF modelType = "reasoning"
    THEN (IF usePro THEN "sonar-reasoning-pro" ELSE "sonar-reasoning")
    ELSE (IF usePro THEN "sonar-pro" ELSE "sonar")

PerplexityModels == {"sonar-reasoning-pro", "sonar-reasoning", "sonar-pro", "sonar"}

\* PerplexityAPI.query(prompt, systemPrompt, modelType, usePro) against an
\* endpoint env, whose models answer with content ("ok"), refuse with status
\* 400 or 402 ("unavailable") or fail otherwise ("error"). A refused pro
\* model is retried as the standard model; a failed reasoning request is
\* retried as a search request.
RECURSIVE query(_, _, _, _)
query(modelType, usePro, env, content) ==
  LET model == PerplexityModel(modelType, usePro)
  IN  IF ~env.apiKey THEN ProviderError
      ELSE IF env.models[model] = "ok"
        THEN [status |-> "ok", content |-> content, model |-> model]
      ELSE IF usePro /\ env.models[model] = "unavailable"
        THEN query(modelType, FALSE, env, content)
      ELSE IF modelType = "reasoning"
        THEN query("search", usePro, env, content)
      ELSE ProviderError

\* endpoints: every model answers; no API key; the pro models are refused;
\* the reasoning models fail; every model fails
AllAnswer == [apiKey |-> TRUE, models |-> [m \in PerplexityModels |-> "ok"]]
PerplexityFailures ==
  {[AllAnswer EXCEPT !.apiKey = FALSE],
   [AllAnswer EXCEPT !.models["sonar-reasoning-pro"] = "unavailable",
                     !.models["sonar-pro"] = "unavailable"],
   [AllAnswer EXCEPT !.models["sonar-reasoning-pro"] = "error",
                     !.models["sonar-reasoning"] = "error"],
   [apiKey |-> TRUE, models |-> [m \in PerplexityModels |-> "error"]]}

\* the text a model reached by a fallback answers with
FallbackContent == <<"Option B fits.", "\n", Fence, JsonTag, "\n", JsonChange, "\n", Fence>>

\* what the provider of a strategy can give to an attempt
ProviderOutcomesOf(label, contents) ==
  IF label \in PerplexityStrategies
    THEN LET modelType == IF label = "Perplexity Reasoning Pro"
                           THEN "reasoning" ELSE "search"
         IN  {query(modelType, TRUE, AllAnswer, c) : c \in contents}
               \cup {query(modelType, TRUE, env, FallbackContent) :
                       env \in PerplexityFailures}
    ELSE {[status |-> "ok", content |-> c, model |-> VerifyModel] : c \in contents}

ProviderOutcomes(label) == ProviderOutcomesOf(label, ProviderContents)
           \cup {ProviderError}

\* what an attempt can throw
AttemptErrors == {"provider error", "no json block", "SyntaxError", "TypeError"}

\* a try block that encloses the parsing and leaves the provider call outside
CaughtAfterTheCall(error) == error \in AttemptErrors \ {"provider error"}

\* the try block of an attempt encloses the provider call, the parsing and
\* the write, and its catch takes whatever is thrown
Caught(error) == error \in AttemptErrors

\* verifyLowConfidenceAnswers up to the loop. The version with one strategy
\* also reads the code descriptions for its prompt; a failed read is caught
\* and nothing of it is kept.
VerifyStart ==
  /\ pc = "verify"
  /\ verifiedQuestions' = questions
  /\ IF lowConfidenceQuestions(questions) = <<>>
       THEN pc' = "verified" /\ UNCHANGED strategy
       ELSE pc' = "attempt" /\ strategy' = 1
  /\ UNCHANGED <<questions, qi, variant, entryQuestions, providerLog, attemptErrors,
                 lastResponse, sampledQuestions>>
  /\ UNCHANGED <<fileVars, answerVars, parseVars, scoreVars, classifyVars, queryVars>>

\* one strategy tried for the current low-confidence question. In the version
\* with one strategy the iteration begins with determineQuestionType, which
\* writes questionType into the question object; the result list still holds
\* that same object.
VerifyAttemptOf(k, contents) ==
  /\ pc = "attempt"
  /\ strategy = k
  /\ k <= Len(Chain(variant))
  /\ LET low == lowConfidenceQuestions(questions)
         idx == low[qi]
         label == Chain(variant)[k]
         typed == IF variant = "helpers"
                    THEN [questions[idx] EXCEPT !.questionType = determineQuestionType(questions[idx])]
                    ELSE questions[idx]
         shared == IF variant = "helpers"
                     THEN [verifiedQuestions EXCEPT ![idx].questionType = typed.questionType]
                     ELSE verifiedQuestions
         questionIndex == FindIndexByNumber(shared, typed.number)
     IN  \E out \in ProviderOutcomesOf(label, contents) :
           LET p == ParseResponse(out)
           IN  /\ questions' = [questions EXCEPT ![idx] = typed]
               /\ verifiedQuestions' =
                    [shared EXCEPT ![questionIndex] = AfterAttempt(@, label, p)]
               /\ providerLog' = Append(providerLog,
                    [number |-> typed.number, strategy |-> label, success |-> p.ok])
               /\ attemptErrors' =
                    IF k = 1 THEN <<p.error>> ELSE Append(attemptErrors, p.error)
               /\ lastResponse' = out
               /\ IF ~p.ok /\ ~Caught(p.error)
                    THEN /\ pc' = "threw"
                         /\ UNCHANGED <<qi, strategy>>
                    ELSE IF TryNextStrategy(p.ok) /\ k < Len(Chain(variant))
                    THEN /\ strategy' = k + 1
                         /\ UNCHANGED <<qi, pc>>
                    ELSE /\ strategy' = 1
                         /\ qi' = qi + 1
                         /\ pc' = IF qi + 1 > Len(low) THEN "verified" ELSE "attempt"
  /\ UNCHANGED <<variant, entryQuestions, sampledQuestions>>
  /\ UNCHANGED <<fileVars, answerVars, parseVars, scoreVars, classifyVars, queryVars>>

VerifyAttempt(k) == VerifyAttemptOf(k, ProviderContents)

\* Attempt 1: Perplexity Reasoning Pro
ReasoningAttempt == variant = "chain" /\ VerifyAttempt(1)

\* Attempt 2: Perplexity Search Pro
SearchAttempt == variant = "chain" /\ VerifyAttempt(2)

\* the verification LLM: the last fallback of the chain, the only strategy of
\* the other version
LlmAttempt == variant \in {"helpers", "chain"} /\ VerifyAttempt(Len(Chain(variant)))

(* Inputs of the verification step *)

VerifyConfidences == {NoConfidence, 5, 6, 9}

\* question i as the answer step leaves it, with a given confidence
AnsweredQuestion(i, c) ==
  LET src == QuestionSeq[((i - 1) % Len(QuestionSeq)) + 1]
      q == NewQuestion(i, src.text, src.options)
  IN  [q EXCEPT !.questionType = determineQuestionType(q), !.myAnswer = "A",
                !.confidence = c, !.reasoning = <<"o","k">>,
                !.modelUsed = LlmAnswerModel]

\* lists of 1..MaxQuestions answered questions, numbered in order
AnsweredLists ==
  UNION {{[i \in 1..n |-> AnsweredQuestion(i, cs[i])] :
            cs \in [1..n -> VerifyConfidences]} : n \in 1..MaxQuestions}

InitVerify ==
  /\ variant \in {"helpers", "chain"}
  /\ questions \in AnsweredLists
  /\ entryQuestions = questions
  /\ verifiedQuestions = <<>>
  /\ strategy = 0
  /\ providerLog = <<>>
  /\ attemptErrors = <<>>
  /\ lastResponse = NoResponse
  /\ sampledQuestions = <<>>
  /\ pc = "verify"
  /\ qi = 1
  /\ IdleFiles /\ IdleAnswer /\ IdleParse /\ IdleScore /\ IdleClassify /\ IdleQuery

NextVerify == VerifyStart \/ ReasoningAttempt \/ SearchAttempt \/ LlmAttempt

SpecVerify == InitVerify /\ [][NextVerify]_vars

-----------------------------------------------------------------------------
(* Properties of the verification step *)

\* the provider invocations made for question number n, in order
CallsFor(n) == SelectSeq(providerLog, LAMBDA e : e.number = n)

SucceededFor(n) == \E j \in 1..Len(providerLog) :
  providerLog[j].number = n /\ providerLog[j].success

\* C3: threshold gate. A provider is invoked only for questions whose
\* confidence on entry is below 6, a missing confidence counting as 0; once
\* the step returns every such question has had an invocation; a question
\* with confidence 6 or more has none and its record in the result equals
\* its record on entry.
C3_ThresholdGate ==
  \A i \in 1..Len(entryQuestions) :
    LET e == entryQuestions[i]
        low == e.confidence = NoConfidence \/ e.confidence < 6
    IN  /\ CallsFor(e.number) # <<>> => low
        /\ (pc = "verified" /\ low) => CallsFor(e.number) # <<>>
        /\ (pc # "verify" /\ ~low) =>
             /\ Len(verifiedQuestions) = Len(entryQuestions)
             /\ verifiedQuestions[i] = e

C3_Witness ==
  /\ pc = "verified"
  /\ Len(entryQuestions) = 2
  /\ entryQuestions[1].confidence = 6
  /\ entryQuestions[2].confidence = NoConfidence
  /\ verifiedQuestions[1] = entryQuestions[1]
  /\ CallsFor(2) # <<>>
  /\ verifiedQuestions[2].verifiedAnswer = "B"

\* C4: first success wins. In the chain the invocations made for one question
\* are, in order, Perplexity reasoning, Perplexity search, the fallback LLM;
\* every invocation but the last one made has failed, so at most one of them
\* succeeds and writes verifiedAnswer.
C4_FirstSuccessWins ==
  variant = "chain" =>
    \A i \in 1..Len(entryQuestions) :
      LET es == CallsFor(entryQuestions[i].number)
          order == <<"Perplexity Reasoning Pro", "Perplexity Search Pro", "GPT-4o Fallback">>
      IN  /\ Len(es) <= 3
          /\ \A j \in 1..Len(es) :
               /\ es[j].strategy = order[j]
               /\ j < Len(es) => ~es[j].success
          /\ Cardinality({j \in 1..Len(es) : es[j].success}) <= 1
          /\ (pc # "verify" /\ Len(verifiedQuestions) >= i
                /\ verifiedQuestions[i].verifiedAnswer # Undefined)
               => \E j \in 1..Len(es) : es[j].success

C4_Witness ==
  /\ variant = "chain"
  /\ pc = "verified"
  /\ providerLog =
       <<[number |-> 1, strategy |-> "Perplexity Reasoning Pro", success |-> FALSE],
         [number |-> 1, strategy |-> "Perplexity Search Pro", success |-> TRUE]>>
  /\ verifiedQuestions[1].perplexityAnswer = "B"

\* C5: when every strategy has been tried for a question and has failed, by a
\* provider error, a missing json block or a JSON text that cannot be read,
\* the question's record equals its record on entry: same myAnswer, same
\* confidence, same reasoning, verifiedAnswer not set.
C5_AllFailedUnchanged ==
  pc \in {"attempt", "verified"} =>
    \A i \in 1..Len(entryQuestions) :
      LET es == CallsFor(entryQuestions[i].number)
      IN  (Len(es) = Len(Chain(variant)) /\ \A j \in 1..Len(es) : ~es[j].success)
            => /\ verifiedQuestions[i] = entryQuestions[i]
               /\ verifiedQuestions[i].verifiedAnswer = Undefined

C5_Witness ==
  /\ variant = "chain"
  /\ pc = "verified"
  /\ attemptErrors = <<"provider error", "no json block", "SyntaxError">>
  /\ Len(entryQuestions) = 1
  /\ entryQuestions[1].confidence = 5
  /\ verifiedQuestions[1].myAnswer = "A"
  /\ verifiedQuestions[1].confidence = 5
  /\ verifiedQuestions[1].reasoning = <<"o","k">>
  /\ verifiedQuestions[1].verifiedAnswer = Undefined

\* C6: verification is additive. Whatever the strategies gave, number, text,
\* options and myAnswer of every question are those on entry (and so are the
\* type and the model); the Perplexity fields change only by a successful
\* Perplexity strategy; without a successful strategy nothing changes.
C6_Additive ==
  pc # "verify" =>
    /\ Len(verifiedQuestions) = Len(entryQuestions)
    /\ \A i \in 1..Len(entryQuestions) :
         LET e == entryQuestions[i]
             v == verifiedQuestions[i]
         IN  /\ v.number = e.number /\ v.text = e.text /\ v.options = e.options
             /\ v.myAnswer = e.myAnswer
             /\ v.questionType = e.questionType /\ v.modelUsed = e.modelUsed
             /\ (\A j \in 1..Len(providerLog) :
                   (providerLog[j].number = e.number /\ providerLog[j].success)
                     => providerLog[j].strategy = "GPT-4o Fallback"
                        \/ providerLog[j].strategy = "LLM")
                  => /\ v.perplexityAnswer = e.perplexityAnswer
                     /\ v.perplexityReasoning = e.perplexityReasoning
             /\ ~SucceededFor(e.number) => v = e

C6_Witness ==
  /\ variant = "helpers"
  /\ pc = "verified"
  /\ Len(entryQuestions) = 1
  /\ SucceededFor(1)
  /\ verifiedQuestions[1].myAnswer = "A"
  /\ verifiedQuestions[1].verifiedAnswer = "B"
  /\ verifiedQuestions[1].confidence = 8
  /\ verifiedQuestions[1].reasoning = <<"LLM", "Analysis:", "Option B fits.", "Summary:", "B fits">>
  /\ verifiedQuestions[1].perplexityAnswer = Undefined

\* the latest provider invocation
LastCall == providerLog[Len(providerLog)]

\* position of the question of the latest invocation
LastCallIndex == FindIndexByNumber(entryQuestions, LastCall.number)

\* what JSON.parse makes of the json block of the latest response
LastDocument == JsonDocument(JsonString(lastResponse.content))

\* the text ends with the json block: nothing but white space follows the
\* closing fence of the last json fence
EndsWithJsonBlock(content) ==
  LET t == TrimTokensEnd(content)
  IN  /\ LastIndexOfJsonBlock(t) > 0
      /\ LastIndexOfFence(t) > LastIndexOfJsonBlock(t)
      /\ LastIndexOfFence(t) = Len(t)

\* C13 (as claimed): strict output, block last. A strategy succeeds only if
\* its response ends with the json block; a response with text after the
\* closing fence, or without a closing fence, makes the strategy fail, and
\* in the chain the next strategy is then tried.
C13_BlockLastRequired ==
  (providerLog # <<>> /\ lastResponse.status = "ok") =>
    /\ LastCall.success => EndsWithJsonBlock(lastResponse.content)
    /\ (~EndsWithJsonBlock(lastResponse.content)
          /\ LastCall.strategy \in PerplexityStrategies)
         => /\ pc = "attempt"
            /\ Chain(variant)[strategy] # LastCall.strategy
            /\ Chain(variant)[strategy] # "Perplexity Reasoning Pro"

\* some of the three fields is missing in the parsed block
LacksField(doc) ==
  \/ doc.finalAnswer = Undefined
  \/ doc.confidence = NoConfidence
  \/ doc.reasoningSummary = Undefined

\* C14 (as claimed): strict output, three fields. A strategy succeeds only if
\* its json block holds finalAnswer, confidence and reasoningSummary; a block
\* that parses but lacks one of them is a failed strategy and leaves
\* confidence, reasoning and verifiedAnswer of the question as they were.
C14_ThreeFieldsRequired ==
  (/\ providerLog # <<>>
   /\ lastResponse.status = "ok"
   /\ LastIndexOfJsonBlock(lastResponse.content) > 0
   /\ LastDocument.kind = "object"
   /\ LacksField(LastDocument))
    => /\ ~LastCall.success
       /\ LET e == entryQuestions[LastCallIndex]
              v == verifiedQuestions[LastCallIndex]
          IN  /\ v.confidence = e.confidence
              /\ v.reasoning = e.reasoning
              /\ v.verifiedAnswer = e.verifiedAnswer

\* C15 (as claimed): confidence policy. After a successful strategy the
\* confidence of the question is the reported one when finalAnswer differs
\* from the current answer, and the larger of the old and the reported one
\* when finalAnswer equals the current answer.
C15_ConfidencePolicy ==
  (providerLog # <<>> /\ LastCall.success) =>
    LET e == entryQuestions[LastCallIndex]
        v == verifiedQuestions[LastCallIndex]
        reported == LastDocument.confidence
    IN  IF LastDocument.finalAnswer # e.myAnswer
          THEN v.confidence = reported
          ELSE v.confidence = IF e.confidence > reported THEN e.confidence ELSE reported

\* the position of a strategy in the chain of the running version
StrategyIndex(label) ==
  CHOOSE k \in 1..Len(Chain(variant)) : Chain(variant)[k] = label

C27_ConfidenceInRange ==
  \A i \in 1..Len(verifiedQuestions) :
    entryQuestions[i].confidence \in 1..10 => verifiedQuestions[i].confidence \in 1..10

\* the models a strategy names: the reasoning models, the search models,
\* the verification LLM
NamedModels(label) ==
  CASE label = "Perplexity Reasoning Pro" -> {"sonar-reasoning-pro", "sonar-reasoning"}
    [] label = "Perplexity Search Pro" -> {"sonar-pro", "sonar"}
    [] OTHER -> {VerifyModel}

\* C30 (as claimed): provenance. When an attempt has set verifiedAnswer, the
\* reasoning of the question names the strategy of that attempt, and the
\* answer was given by a model of the kind that strategy names.
C30_Provenance ==
  (providerLog # <<>> /\ LastCall.success) =>
    /\ verifiedQuestions[LastCallIndex].reasoning[1] = LastCall.strategy
    /\ lastResponse.model \in NamedModels(LastCall.strategy)

-----------------------------------------------------------------------------
(* Answerer parsing on its own: handleGeneralQuestion, useO4MiniForQuestion *)

MaxSegments == 3

\* pieces an answering model's text is made of
AnswerPieces == {<<"A","n","s","w","e","r",":"," ","B">>, <<"A","n","s","w","e","r",":","C">>}
ConfidencePieces == {<<"C","o","n","f","i","d","e","n","c","e",":"," ","7">>, <<"C","o","n","f","i","d","e","n","c","e",":","1","0">>}
ReasoningPieces == {<<"R","e","a","s","o","n","i","n","g",":"," ","o","k">>}
OtherPieces ==
  {<<"A","n","s","w","e","r",":"," ","E">>, <<"a","n","s","w","e","r",":"," ","D">>, <<"C","o","n","f","i","d","e","n","c","e",":"," ","h","i","g","h">>, <<"s","o">>, <<"\n">>, <<"\n", "\n">>}

Pieces == AnswerPieces \cup ConfidencePieces \cup ReasoningPieces \cup OtherPieces

\* texts of up to MaxSegments pieces; the empty text is also what the
\* handlers use when response.content is not a string
PieceLists == UNION {[1..n -> Pieces] : n \in 0..MaxSegments}

\* the question the model was asked
ParsedQuestion == NewQuestion(1, QuestionSeq[4].text, QuestionSeq[4].options)

\* handleGeneralQuestion from the model's answer on: the pushed record
GeneralParse ==
  /\ pc = "parse"
  /\ LET r == GeneralRecord(ParsedQuestion, Flatten(llmContent))
     IN  parsedAnswer' = <<[handler |-> "handleGeneralQuestion", answer |-> r.myAnswer,
                            confidence |-> r.confidence, reasoning |-> r.reasoning]>>
  /\ pc' = "parsed"
  /\ UNCHANGED <<questions, qi, llmContent>>
  /\ UNCHANGED <<fileVars, answerVars, verifyVars, scoreVars, classifyVars, queryVars>>

\* useO4MiniForQuestion from the model's answer on: the returned object
O4MiniParse ==
  /\ pc = "parse"
  /\ LET r == ParseAnswer(Flatten(llmContent))
     IN  parsedAnswer' = <<[handler |-> "useO4MiniForQuestion", answer |-> r.answer,
                            confidence |-> r.confidence, reasoning |-> r.reasoning]>>
  /\ pc' = "parsed"
  /\ UNCHANGED <<questions, qi, llmContent>>
  /\ UNCHANGED <<fileVars, answerVars, verifyVars, scoreVars, classifyVars, queryVars>>

InitParse ==
  /\ llmContent \in PieceLists
  /\ parsedAnswer = <<>>
  /\ questions = <<ParsedQuestion>>
  /\ pc = "parse"
  /\ qi = 1
  /\ IdleFiles /\ IdleAnswer /\ IdleVerify /\ IdleScore /\ IdleClassify /\ IdleQuery

NextParse == GeneralParse \/ O4MiniParse

SpecParse == InitParse /\ [][NextParse]_vars

(* Properties of the answerer parsing *)

\* the first piece of the text that is in a set of pieces, 0 if there is none
FirstPieceIn(set) ==
  IF \E k \in 1..Len(llmContent) : llmContent[k] \in set
    THEN CHOOSE k \in 1..Len(llmContent) :
           /\ llmContent[k] \in set
           /\ \A j \in 1..(k - 1) : llmContent[j] \notin set
    ELSE 0

\* the letter and the number written in a piece
LetterOf(piece) == IF piece = <<"A","n","s","w","e","r",":"," ","B">> THEN "B" ELSE "C"
NumberOf(piece) == IF piece = <<"C","o","n","f","i","d","e","n","c","e",":"," ","7">> THEN 7 ELSE 10

\* C7: answerer parsing. The text gives the answer and the confidence written
\* in it only if it holds both an Answer label followed by a letter A-D and a
\* Confidence label followed by digits; if either is missing the result is the
\* fallback, answer A with confidence 5; when only the Reasoning label is
\* missing the reasoning is empty and answer and confidence are the parsed ones.
C7_AnswerParsing ==
  pc = "parsed" =>
    LET a == FirstPieceIn(AnswerPieces)
        c == FirstPieceIn(ConfidencePieces)
        r == parsedAnswer[1]
    IN  /\ Len(parsedAnswer) = 1
        /\ (a = 0 \/ c = 0) =>
             /\ r.answer = "A"
             /\ r.confidence = 5
             /\ r.reasoning = <<"Could not parse model response">>
        /\ (a > 0 /\ c > 0) =>
             /\ r.answer = LetterOf(llmContent[a])
             /\ r.confidence = NumberOf(llmContent[c])
             /\ FirstPieceIn(ReasoningPieces) = 0 => r.reasoning = <<>>

C7_Witness ==
  /\ pc = "parsed"
  /\ llmContent = <<<<"A","n","s","w","e","r",":"," ","B">>, <<"\n">>, <<"R","e","a","s","o","n","i","n","g",":"," ","o","k">>>>
  /\ parsedAnswer[1].handler = "handleGeneralQuestion"
  /\ parsedAnswer[1].answer = "A"
  /\ parsedAnswer[1].confidence = 5

-----------------------------------------------------------------------------
(* Double precision arithmetic of the percentage *)

\* A positive double is [hi, mid, lo, exp]: the integer hi*Limb^2 + mid*Limb
\* + lo times 2^exp, where the integer has 54 binary digits, the first one 1
\* and the last one 0: the 53 significant digits of a double and a zero.
LimbBits == 18
Limb == 2 ^ LimbBits

\* the number of zeros before the first 1 among the binary digits of c/t
\* after the point, for 0 < c < t
LeadingZeros(c, t) ==
  CHOOSE z \in 0..30 : c * (2 ^ z) < t /\ 2 * c * (2 ^ z) >= t

\* round to nearest, ties to even. The exact value is the 54-digit integer
\* l1*Limb^2 + l2*Limb + l3 (its last digit is the first digit to drop) times
\* 2^exp, plus something smaller than one unit when sticky.
RoundToDouble(l1, l2, l3, sticky, exp) ==
  LET roundBit == l3 % 2
      lsb == (l3 \div 2) % 2
      up == roundBit = 1 /\ (sticky \/ lsb = 1)
      n3 == l3 - roundBit + (IF up THEN 2 ELSE 0)
      n2 == l2 + (n3 \div Limb)
      n1 == l1 + (n2 \div Limb)
  IN  IF n1 = Limb
        THEN [hi |-> Limb \div 2, mid |-> 0, lo |-> 0, exp |-> exp + 1]
        ELSE [hi |-> n1, mid |-> n2 % Limb, lo |-> n3 % Limb, exp |-> exp]

\* correctCount / totalCount for 0 < correctCount < totalCount < 2^13: long
\* division, 18 digits at a time, from the first digit that is 1
Divide(c, t) ==
  LET z == LeadingZeros(c, t)
      r0 == c * (2 ^ z)
      l1 == (r0 * Limb) \div t
      r1 == (r0 * Limb) % t
      l2 == (r1 * Limb) \div t
      r2 == (r1 * Limb) % t
      l3 == (r2 * Limb) \div t
      r3 == (r2 * Limb) % t
  IN  RoundToDouble(l1, l2, l3, r3 # 0, 0 - (z + 3 * LimbBits))

\* x * 100 for x >= 2^-30: the exact product has 6 or 7 digits more than x;
\* all but one of them are shifted out before rounding
Times100(x) ==
  LET p3 == 100 * x.lo
      p2 == 100 * x.mid + (p3 \div Limb)
      p1 == 100 * x.hi + (p2 \div Limb)
      top == p1 \div Limb
      s == IF top >= 64 THEN 7 ELSE 6
      d == 2 ^ s
      q1 == p1 \div d
      q2 == ((p1 % d) * Limb + (p2 % Limb)) \div d
      q3 == ((p2 % d) * Limb + (p3 % Limb)) \div d
  IN  RoundToDouble(q1, q2, q3, (p3 % d) # 0, x.exp + s)

\* Math.round(x) for a positive double below 2^17: the nearest integer, a
\* half going up
MathRound(x) ==
  LET f == 0 - x.exp
  IN  IF f > 3 * LimbBits THEN 0
      ELSE (x.hi \div (2 ^ (f - 2 * LimbBits)))
             + ((x.hi \div (2 ^ (f - 2 * LimbBits - 1))) % 2)

\* Math.round((correctCount / totalCount) * 100) for totalCount > 0:
\* 0 / t is 0 and t / t is 1, both exact
Percentage(c, t) ==
  IF c = 0 THEN 0
  ELSE IF c = t THEN 100
  ELSE MathRound(Times100(Divide(c, t)))

-----------------------------------------------------------------------------
(* Performance log: generatePerformanceLog, savePerformanceLog *)

\* the family as the question holds it, with no default
LogQuestionTypeAsGiven(q) == q.questionType

\* q.questionType || 'GENERAL'
LogQuestionType(q) == IF q.questionType = Undefined THEN "GENERAL" ELSE q.questionType

\* q.modelUsed || 'unknown'
LogModelUsed(q) == IF q.modelUsed = Undefined THEN "unknown" ELSE q.modelUsed

\* the counters of one family or model with the percentage computed from them:
\* stats.total > 0 ? Math.round((stats.correct / stats.total) * 100) : 0
StatsOf(total, correct) ==
  [total |-> total, correct |-> correct,
   percentage |-> IF total > 0 THEN Percentage(correct, total) ELSE 0]

\* the questions of a list that a counter counts
CountWhere(qs, Test(_)) == Cardinality({i \in 1..Len(qs) : Test(qs[i])})

\* questionsLog[q.number.toString()]: a later question of the same number
\* replaces an earlier one
questionsLog(qs) ==
  [n \in {qs[i].number : i \in 1..Len(qs)} |->
     LET last == CHOOSE i \in 1..Len(qs) :
                   /\ qs[i].number = n
                   /\ \A j \in (i + 1)..Len(qs) : qs[j].number # n
         q == qs[last]
     IN  [questionType |-> LogQuestionType(q),
          modelUsed |-> LogModelUsed(q),
          isCorrect |-> q.isCorrect,
          confidence |-> ConfidenceOrZero(q),
          initialAnswer |-> q.myAnswer,
          verifiedAnswer |-> q.verifiedAnswer,
          correctAnswer |-> q.correctAnswer]]

LogFamilies == {"CPT", "ICD-10", "HCPCS", "GENERAL"}

\* the PerformanceLog of a question list, made at the time now
generatePerformanceLog(qs, now) ==
  [timestamp |-> now,
   questions |-> questionsLog(qs),
   summary |->
     [totalQuestions |-> Len(qs),
      correctAnswers |-> CountWhere(qs, LAMBDA q : q.isCorrect),
      byQuestionType |->
        [t \in LogFamilies |->
           StatsOf(CountWhere(qs, LAMBDA q : LogQuestionType(q) = t),
                   CountWhere(qs, LAMBDA q : LogQuestionType(q) = t /\ q.isCorrect))],
      byModel |->
        [m \in {LogModelUsed(qs[i]) : i \in 1..Len(qs)} |->
           StatsOf(CountWhere(qs, LAMBDA q : LogModelUsed(q) = m),
                   CountWhere(qs, LAMBDA q : LogModelUsed(q) = m /\ q.isCorrect))]]]

\* a history that keeps the latest log only
UpdatedHistoryReplacing(file, log) == [exists |-> TRUE, items |-> <<log>>]

\* performance_history.json after history.push(performanceLog): read if the
\* file exists, else started empty
UpdatedHistory(file, log) ==
  [exists |-> TRUE,
   items |-> Append(IF file.exists THEN file.items ELSE <<>>, log)]

\* the times at which a log is made
Timestamps == {"t1", "t2"}

\* both files after savePerformanceLog(log)
savePerformanceLog(log) ==
  /\ performanceLogFile' = <<log>>
  /\ performanceHistoryFile' = UpdatedHistory(performanceHistoryFile, log)

-----------------------------------------------------------------------------
(* Scoring: compareNode, the branch taken when answer_key.json exists *)

\* a || b for optional strings: undefined and '' are falsy
OrElse(a, b) == IF a # Undefined /\ a # "" THEN a ELSE b

\* state.verifiedQuestions.map(q => ({number, myAnswer: q.verifiedAnswer || q.myAnswer}))
finalAnswers(qs) ==
  [i \in 1..Len(qs) |->
     [number |-> qs[i].number, myAnswer |-> OrElse(qs[i].verifiedAnswer, qs[i].myAnswer)]]

\* one entry of results: finalAnswers.find by number, 'N/A' for no answer
ResultFor(keyItem, finals) ==
  LET k == FindIndexByNumber(finals, keyItem.number)
  IN  [number |-> keyItem.number,
       myAnswer |-> IF k = 0 THEN "N/A" ELSE OrElse(finals[k].myAnswer, "N/A"),
       correctAnswer |-> keyItem.answer,
       isCorrect |-> k # 0 /\ finals[k].myAnswer = keyItem.answer]

IsChallenged(q) == \E k \in 1..Len(q.reasoning) : q.reasoning[k] = "Perplexity challenge"

\* the TestResults built from the key and the questions
Score(key, qs) ==
  LET finals == finalAnswers(qs)
      results == [k \in 1..Len(key) |-> ResultFor(key[k], finals)]
      correctCount == Cardinality({k \in 1..Len(results) : results[k].isCorrect})
      totalCount == Len(results)
  IN  [totalQuestions |-> totalCount,
       correctAnswers |-> correctCount,
       incorrectAnswers |-> totalCount - correctCount,
       percentage |-> Percentage(correctCount, totalCount),
       details |-> results,
       verifiedCount |->
         Cardinality({i \in 1..Len(qs) : OrElse(qs[i].verifiedAnswer, "") # ""}),
       challengedCount |-> Cardinality({i \in 1..Len(qs) : IsChallenged(qs[i])}),
       perplexityCount |->
         Cardinality({i \in 1..Len(qs) : OrElse(qs[i].perplexityAnswer, "") # ""})]

\* updatedQuestions: correctAnswer and isCorrect copied from the details
UpdatedQuestions(qs, details) ==
  [i \in 1..Len(qs) |->
     LET k == FindIndexByNumber(details, qs[i].number)
     IN  IF k = 0 THEN qs[i]
         ELSE [qs[i] EXCEPT !.correctAnswer = details[k].correctAnswer,
                            !.isCorrect = details[k].isCorrect]]

Compare ==
  /\ pc = "compare"
  /\ LET r == Score(answerKey, verifiedQuestions)
     IN  /\ testResults' = <<r>>
         /\ verifiedQuestions' = UpdatedQuestions(verifiedQuestions, r.details)
         /\ \E now \in Timestamps :
              savePerformanceLog(generatePerformanceLog(verifiedQuestions', now))
  /\ pc' = "compared"
  /\ UNCHANGED <<questions, qi, answerKey>>
  /\ UNCHANGED <<variant, entryQuestions, strategy, providerLog, attemptErrors, lastResponse, sampledQuestions>>
  /\ UNCHANGED <<fileVars, answerVars, parseVars, classifyVars, queryVars>>

(* Inputs of the scoring *)

MaxKeyItems == 40

\* the longest question list a performance log is made of
MaxLogQuestions == 40

\* the passes over one performance history
MaxPasses == 2

KeyLetters == <<"B", "C", "D", "A">>
KeyLetter(i) == KeyLetters[((i - 1) % 4) + 1]
WrongLetter(i) == IF KeyLetter(i) = "A" THEN "B" ELSE "A"

\* a key of n items, numbered in order
KeyOf(n) == [i \in 1..n |-> [number |-> i, answer |-> KeyLetter(i)]]

\* the ways a question is answered wrongly, or not at all
WrongStyles == <<"wrong", "missing", "overridden", "case">>
WrongStyle(i, o) == WrongStyles[((i + o) % 4) + 1]

\* the answered question number i: right or wrong in a given style
Submission(i, style) ==
  LET q == [NewQuestion(i, <<"Q">>, <<>>) EXCEPT
              !.questionType = "GENERAL", !.confidence = 8,
              !.reasoning = <<"o","k">>, !.modelUsed = LlmAnswerModel]
  IN  CASE style = "initial" -> [q EXCEPT !.myAnswer = KeyLetter(i)]
        [] style = "verified" ->
             [q EXCEPT !.myAnswer = WrongLetter(i), !.verifiedAnswer = KeyLetter(i)]
        [] style = "wrong" -> [q EXCEPT !.myAnswer = WrongLetter(i)]
        [] style = "overridden" ->
             [q EXCEPT !.myAnswer = KeyLetter(i), !.verifiedAnswer = WrongLetter(i)]
        [] OTHER -> [q EXCEPT !.myAnswer = LowerChar(KeyLetter(i))]

\* the questions for a key of n items of which the first c are answered
\* rightly; questions answered in the style 'missing' are left out, and for an
\* odd o there is one question more than the key has
SubmissionsFor(n, c, right, o) ==
  LET style(i) == IF i <= c THEN right ELSE WrongStyle(i, o)
      all == [i \in 1..n |-> Submission(i, style(i))]
      kept == SelectSeq(all, LAMBDA q : q.number <= c \/ WrongStyle(q.number, o) # "missing")
  IN  IF o % 2 = 1 THEN Append(kept, Submission(n + 1, "initial")) ELSE kept

InitScore ==
  /\ \E n \in 1..MaxKeyItems : \E c \in 0..n :
       \E right \in {"initial", "verified"} : \E o \in 0..3 :
         /\ answerKey = KeyOf(n)
         /\ verifiedQuestions = SubmissionsFor(n, c, right, o)
  /\ testResults = <<>>
  /\ performanceLogFile = <<>>
  /\ performanceHistoryFile = NoArrayFile
  /\ questions = <<>>
  /\ pc = "compare"
  /\ qi = 1
  /\ variant = "none"
  /\ entryQuestions = <<>>
  /\ strategy = 0
  /\ providerLog = <<>>
  /\ attemptErrors = <<>>
  /\ lastResponse = NoResponse
  /\ sampledQuestions = <<>>
  /\ IdleFiles /\ IdleAnswer /\ IdleParse /\ IdleClassify /\ IdleQuery

NextScore == Compare

SpecScore == InitScore /\ [][NextScore]_vars

(* Properties of the scoring *)

\* the final answer submitted for question number n: verifiedAnswer if set,
\* else myAnswer; "none" when the question was not answered
SubmittedAnswer(qs, n) ==
  IF \E i \in 1..Len(qs) : qs[i].number = n
    THEN LET q == qs[CHOOSE i \in 1..Len(qs) : qs[i].number = n]
         IN  IF q.verifiedAnswer # Undefined THEN q.verifiedAnswer ELSE q.myAnswer
    ELSE "none"

\* the entries and the counts of the result
ScoringEntriesAndCounts ==
  pc = "compared" =>
    LET r == testResults[1]
    IN  /\ Len(r.details) = Len(answerKey)
        /\ \A k \in 1..Len(answerKey) :
             /\ r.details[k].number = answerKey[k].number
             /\ r.details[k].isCorrect
                  <=> SubmittedAnswer(verifiedQuestions, answerKey[k].number) = answerKey[k].answer
        /\ r.totalQuestions = Len(answerKey)
        /\ r.correctAnswers = Cardinality({k \in 1..Len(answerKey) : r.details[k].isCorrect})
        /\ r.correctAnswers + r.incorrectAnswers = r.totalQuestions

\* C10 (as claimed): scoring against the answer key. The result has one entry
\* per key item, an entry is correct exactly when the submitted final answer
\* equals the key's answer, a key question without submission is incorrect,
\* correct + incorrect = total = number of key items, and the percentage is
\* 100 * correct / total rounded to the nearest integer, a half going up.
C10_ScoringAsClaimed ==
  /\ ScoringEntriesAndCounts
  /\ pc = "compared" =>
       LET r == testResults[1]
       IN  r.percentage = (200 * r.correctAnswers + r.totalQuestions) \div (2 * r.totalQuestions)

\* the scenario of three key items, one answered rightly, one wrongly, one not at all
ScoringScenario ==
  /\ pc = "compared"
  /\ answerKey = KeyOf(3)
  /\ Len(verifiedQuestions) = 2
  /\ verifiedQuestions[1].myAnswer = "B" /\ verifiedQuestions[2].myAnswer = "A"
  /\ testResults[1].correctAnswers = 1
  /\ testResults[1].incorrectAnswers = 2
  /\ testResults[1].percentage = 33
  /\ testResults[1].details[3].myAnswer = "N/A"

\* C35: after a scoring pass the summary of the performance log and the test
\* results agree on the number of questions and on the number of correct
\* answers, for every answer key and every submitted list, a list cut to
\* the first questions included.
C35_LogAgreesWithResults ==
  pc = "compared" =>
    /\ performanceLogFile[1].summary.totalQuestions = testResults[1].totalQuestions
    /\ performanceLogFile[1].summary.correctAnswers = testResults[1].correctAnswers

-----------------------------------------------------------------------------
(* Performance log on its own: passes of generatePerformanceLog and *)
(* savePerformanceLog over one scored question list *)

\* one pass: the log of the scored questions is made and saved
LogPass ==
  /\ pc = "log"
  /\ Len(performanceHistoryFile.items) < MaxPasses
  /\ \E now \in Timestamps :
       savePerformanceLog(generatePerformanceLog(verifiedQuestions, now))
  /\ UNCHANGED <<questions, pc, qi, answerKey, testResults>>
  /\ UNCHANGED <<variant, entryQuestions, verifiedQuestions, strategy, providerLog,
                 attemptErrors, lastResponse, sampledQuestions>>
  /\ UNCHANGED <<fileVars, answerVars, parseVars, classifyVars, queryVars>>

(* Inputs of the performance log *)

LogTypes == <<"CPT", "ICD-10", "HCPCS", Undefined, "GENERAL">>
LogModels == <<LlmAnswerModel, "o4-mini", Undefined>>

\* the scored question number i; "single" lists are of one family and one
\* model, "mixed" lists go round the families, the models and a missing
\* confidence
LogQuestion(i, correct, mix) ==
  LET q == [NewQuestion(i, <<"Q">>, <<>>) EXCEPT
              !.myAnswer = "A", !.reasoning = <<"o","k">>,
              !.correctAnswer = IF correct THEN "A" ELSE "B",
              !.isCorrect = correct]
  IN  IF mix = "single"
        THEN [q EXCEPT !.questionType = "GENERAL", !.confidence = 8,
                       !.modelUsed = LlmAnswerModel]
        ELSE [q EXCEPT !.questionType = LogTypes[(i % 5) + 1],
                       !.confidence = IF i % 2 = 0 THEN NoConfidence ELSE 8,
                       !.modelUsed = LogModels[(i % 3) + 1]]

\* n scored questions of which the first c are correct
LogQuestions(n, c, mix) == [i \in 1..n |-> LogQuestion(i, i <= c, mix)]

InitLog ==
  /\ \E n \in 0..MaxLogQuestions : \E c \in 0..n : \E mix \in {"single", "mixed"} :
       verifiedQuestions = LogQuestions(n, c, mix)
  /\ performanceLogFile = <<>>
  /\ performanceHistoryFile = NoArrayFile
  /\ answerKey = <<>>
  /\ testResults = <<>>
  /\ questions = <<>>
  /\ pc = "log"
  /\ qi = 1
  /\ variant = "none"
  /\ entryQuestions = <<>>
  /\ strategy = 0
  /\ providerLog = <<>>
  /\ attemptErrors = <<>>
  /\ lastResponse = NoResponse
  /\ sampledQuestions = <<>>
  /\ IdleFiles /\ IdleAnswer /\ IdleParse /\ IdleClassify /\ IdleQuery

NextLog == LogPass

SpecLog == InitLog /\ [][NextLog]_vars

(* Properties of the performance log *)

\* the counters of the latest log are those of the question list, and a
\* family or model without questions reports 0
LogCountsAndZeroTotals ==
  performanceLogFile # <<>> =>
    LET s == performanceLogFile[1].summary
        qs == verifiedQuestions
    IN  /\ DOMAIN s.byQuestionType = LogFamilies
        /\ \A t \in LogFamilies :
             /\ s.byQuestionType[t].total
                  = Cardinality({i \in 1..Len(qs) : LogQuestionType(qs[i]) = t})
             /\ s.byQuestionType[t].correct
                  = Cardinality({i \in 1..Len(qs) :
                                   LogQuestionType(qs[i]) = t /\ qs[i].isCorrect})
             /\ s.byQuestionType[t].total = 0 => s.byQuestionType[t].percentage = 0
        /\ \A m \in DOMAIN s.byModel :
             /\ s.byModel[m].total
                  = Cardinality({i \in 1..Len(qs) : LogModelUsed(qs[i]) = m})
             /\ s.byModel[m].total > 0

\* the sum of the values a function takes on a set
RECURSIVE SumOver(_, _)
SumOver(f, S) ==
  IF S = {} THEN 0
  ELSE LET x == CHOOSE y \in S : TRUE
       IN  f[x] + SumOver(f, S \ {x})

\* C36: the buckets partition the questions. In the latest log the totals of
\* the families sum to summary.totalQuestions and their correct counts to
\* summary.correctAnswers, the same holds for the models, and no bucket has
\* more correct answers than questions.
C36_BucketsPartition ==
  performanceLogFile # <<>> =>
    LET s == performanceLogFile[1].summary
        types == s.byQuestionType
        models == s.byModel
    IN  /\ SumOver([t \in DOMAIN types |-> types[t].total], DOMAIN types) = s.totalQuestions
        /\ SumOver([t \in DOMAIN types |-> types[t].correct], DOMAIN types) = s.correctAnswers
        /\ SumOver([m \in DOMAIN models |-> models[m].total], DOMAIN models) = s.totalQuestions
        /\ SumOver([m \in DOMAIN models |-> models[m].correct], DOMAIN models) = s.correctAnswers
        /\ \A t \in DOMAIN types : types[t].correct <= types[t].total
        /\ \A m \in DOMAIN models : models[m].correct <= models[m].total

\* a log of questions of every family and model, some without a family and
\* some without a model, some answered rightly and some wrongly
C36_Witness ==
  /\ performanceLogFile # <<>>
  /\ LET s == performanceLogFile[1].summary
     IN  /\ s.totalQuestions >= 5
         /\ s.correctAnswers >= 1 /\ s.correctAnswers < s.totalQuestions
         /\ \A t \in LogFamilies : s.byQuestionType[t].total >= 1
         /\ "unknown" \in DOMAIN s.byModel
         /\ \E i \in DOMAIN verifiedQuestions : verifiedQuestions[i].questionType = Undefined

\* the percentage the counters of one family or model should carry:
\* 100 * correct / total rounded to the nearest integer, a half going up
RoundedPercentage(stats) ==
  IF stats.total > 0
    THEN (200 * stats.correct + stats.total) \div (2 * stats.total)
    ELSE 0

\* C22 (as claimed): for every family and every model of the latest log the
\* percentage is round(100 * correct / total) when total > 0 and 0 when
\* total = 0.
C22_PercentagesAsClaimed ==
  performanceLogFile # <<>> =>
    LET s == performanceLogFile[1].summary
    IN  /\ \A t \in DOMAIN s.byQuestionType :
             s.byQuestionType[t].percentage = RoundedPercentage(s.byQuestionType[t])
        /\ \A m \in DOMAIN s.byModel :
             s.byModel[m].percentage = RoundedPercentage(s.byModel[m])

-----------------------------------------------------------------------------
(* Classifier on its own: determineQuestionType called on one question *)

\* number of calls made on the question
MaxCalls == 2

ClassifyTexts ==
  {<<"W","h","i","c","h"," ","H","C","P","C","S"," ","c","o","d","e">>,
   <<"P","r","o","s","t","h","e","t","i","c"," ","l","e","g">>,
   <<"I","C","D","-","1","0"," ","c","o","d","e"," ","f","o","r"," ","f","l","u">>,
   <<"D","i","a","g","n","o","s","i","s"," ","c","o","d","e">>,
   <<"C","P","T"," ","c","o","d","e"," ","f","o","r"," ","p","u","m","p","s">>,
   <<"S","u","r","g","i","c","a","l"," ","c","o","d","e">>,
   <<"M","o","d","i","f","i","e","r"," ","u","s","e">>,
   <<"D","u","r","a","b","l","e"," ","m","e","d","i","c","a","l"," ","e","q","u","i","p","m","e","n","t"," ","a","n","d"," ","I","C","D","-","1","0">>}

ClassifyOptions ==
  {<<>>,
   <<<<"A","."," ","E","0","7","8","1">>, <<"B","."," ","n","o","n","e">>>>,
   <<<<"A","."," ","C","1","7","1","3">>, <<"B","."," ","C","1","3","0","0">>>>,
   <<<<"A","."," ","C","1","7","1","3",","," ","E","0","7","8","1">>, <<"B","."," ","n","o","n","e">>>>,
   <<<<"A","."," ","E","1","1",".","9">>, <<"B","."," ","n","o","n","e">>>>,
   <<<<"A","."," ","1","1","4","0","0">>, <<"B","."," ","1","1","6","0","0">>>>,
   <<<<"A","."," ","y","e","s">>, <<"B","."," ","n","o">>>>,
   <<<<"A","."," ","C","1","7","1","3">>, <<"B","."," ","E","0","7","8","1">>>>,
   <<<<"A","."," ","1","1","4","0","0"," ","E","1","1",".","9">>, <<"B","."," ","n","o","n","e">>>>,
   <<<<"A","."," ","h","c","p","c","s"," ","i","t","e","m">>, <<"B","."," ","n","o","n","e">>>>}

\* the question is new, or carries the type of an earlier classification
ClassifyTypes == {Undefined, "CPT"}

\* an assignment that also normalises the text of the question
ClassifiedRewriting(q, type) ==
  [q EXCEPT !.questionType = type, !.text = ToLowerCase(q.text)]

\* question.questionType = type, the assignment before every return
Classified(q, type) == [q EXCEPT !.questionType = type]

\* one call of determineQuestionType(question)
Classify ==
  /\ pc = "classify"
  /\ Len(classifyLog) < MaxCalls
  /\ LET q == questions[1]
         type == determineQuestionType(q)
     IN  /\ questions' = [questions EXCEPT ![1] = Classified(q, type)]
         /\ classifyLog' = Append(classifyLog,
              [before |-> q, returned |-> type, after |-> Classified(q, type)])
  /\ UNCHANGED <<pc, qi>>
  /\ UNCHANGED <<fileVars, answerVars, verifyVars, parseVars, scoreVars, queryVars>>

InitClassify ==
  /\ \E t \in ClassifyTexts : \E o \in ClassifyOptions : \E ty \in ClassifyTypes :
       questions = <<[NewQuestion(1, t, o) EXCEPT !.questionType = ty]>>
  /\ classifyLog = <<>>
  /\ pc = "classify"
  /\ qi = 1
  /\ IdleFiles /\ IdleAnswer /\ IdleVerify /\ IdleParse /\ IdleScore /\ IdleQuery

NextClassify == Classify

SpecClassify == InitClassify /\ [][NextClassify]_vars

-----------------------------------------------------------------------------
(* Properties of the classifier *)

\* the six rules in their order, each with its family and whether the
\* question matches it (the option patterns as the code tests them)
ClassifierRules(q) ==
  <<[family |-> "HCPCS", matches |-> HasKeyword(q, HcpcsKeywords)],
    [family |-> "HCPCS", matches |-> HcpcsOptionRule(q)],
    [family |-> "ICD-10", matches |-> HasKeyword(q, IcdKeywords)],
    [family |-> "ICD-10", matches |-> OptionRule("ICD-10", q)],
    [family |-> "CPT", matches |-> HasKeyword(q, CptKeywords)],
    [family |-> "CPT", matches |-> OptionRule("CPT", q)]>>

\* C16: classifier precedence. Every call returns a family; it is the family
\* of the first rule the question matches, in the order HCPCS keywords, HCPCS
\* option pattern, ICD-10 keywords, ICD-10 option pattern, CPT keywords, CPT
\* option pattern, and GENERAL when the question matches none, with or
\* without options.
C16_ClassifierPrecedence ==
  \A c \in 1..Len(classifyLog) :
    LET rules == ClassifierRules(classifyLog[c].before)
        hit == {r \in 1..Len(rules) : rules[r].matches}
        returned == classifyLog[c].returned
    IN  /\ returned \in FamilySet \cup {"GENERAL"}
        /\ IF hit = {}
             THEN returned = "GENERAL"
             ELSE returned = rules[CHOOSE r \in hit : \A r2 \in hit : r <= r2].family

\* C16 witness: a question with a CPT keyword in its text and an HCPCS code
\* in an option, which also matches the ICD-10 pattern, was classified HCPCS.
C16_Witness ==
  /\ classifyLog # <<>>
  /\ LET rules == ClassifierRules(classifyLog[1].before)
     IN  /\ ~rules[1].matches /\ rules[2].matches
         /\ rules[4].matches /\ rules[5].matches
  /\ classifyLog[1].returned = "HCPCS"

\* the option holds, at some position, a letter followed by four digits, the
\* letter not being C
ContainsNonCHcpcsCode(option) ==
  \E i \in 1..Len(option) : HcpcsMatchLen(option, i) = 5 /\ option[i] # "C"

\* C17 (as claimed): HCPCS pattern rule. A question without HCPCS keyword is
\* classified HCPCS exactly when some option contains a letter+4-digit code
\* whose letter is not C.
C17_HcpcsPatternRule ==
  \A c \in 1..Len(classifyLog) :
    LET q == classifyLog[c].before
    IN  ~HasKeyword(q, HcpcsKeywords) =>
          (classifyLog[c].returned = "HCPCS"
             <=> \E k \in 1..Len(q.options) : ContainsNonCHcpcsCode(q.options[k]))

\* C18: classifier idempotence. Every call on the question returns what the
\* first call returned; after a call questionType is the returned value; a
\* call after the first leaves the question as it was; no call changes
\* another field than questionType.
C18_ClassifierIdempotent ==
  /\ \A c \in 1..Len(classifyLog) :
       LET e == classifyLog[c]
       IN  /\ e.returned = classifyLog[1].returned
           /\ e.after.questionType = e.returned
           /\ c > 1 => e.after = e.before
           /\ [e.after EXCEPT !.questionType = e.before.questionType] = e.before
  /\ classifyLog # <<>> => questions[1] = classifyLog[Len(classifyLog)].after

\* C18 witness: a new question with mixed-case text was classified twice,
\* ICD-10 both times.
C18_Witness ==
  /\ Len(classifyLog) >= 2
  /\ classifyLog[1].before.questionType = Undefined
  /\ classifyLog[1].before.text # ToLowerCase(classifyLog[1].before.text)
  /\ classifyLog[1].returned = "ICD-10"
  /\ classifyLog[2].returned = "ICD-10"
  /\ questions[1].questionType = "ICD-10"

-----------------------------------------------------------------------------
(* The workflow: extract -> answer -> verify -> challenge -> compare *)

\* a graph that takes the edge to verify while questions are still unanswered
AnswerNodeReturnedEarly == pc \in {"next", "done"}

\* answerNode has returned: answerQuestionsWithConfidence has left its loop
AnswerNodeReturned == pc = "done"

\* the edge answer -> verify: verifyNode is given state.answeredQuestions
VerifyNode ==
  /\ AnswerNodeReturned
  /\ questions' = answeredQuestions
  /\ entryQuestions' = answeredQuestions
  /\ variant' = "helpers"
  /\ pc' = "verify"
  /\ qi' = 1
  /\ UNCHANGED <<verifiedQuestions, strategy, providerLog, attemptErrors, lastResponse, sampledQuestions>>
  /\ UNCHANGED <<fileVars, answerVars, parseVars, scoreVars, classifyVars, queryVars>>

\* the edges verify -> challenge -> compare: devilsAdvocateCheck samples no
\* question and returns the list it was given; compareNode then reads the key
ChallengeNode ==
  /\ pc = "verified"
  /\ answerKey' = KeyOf(Len(verifiedQuestions))
  /\ pc' = "compare"
  /\ UNCHANGED <<questions, qi, testResults, performanceLogFile, performanceHistoryFile>>
  /\ UNCHANGED <<fileVars, answerVars, verifyVars, parseVars, classifyVars, queryVars>>

\* the workflow is run on lists of the questions with an HCPCS code and
\* without any code, with no store file yet
WorkflowTexts == {QuestionSeq[2].text, QuestionSeq[4].text}

InitWorkflow ==
  /\ InitAnswer
  /\ \A i \in 1..Len(questions) : questions[i].text \in WorkflowTexts
  /\ ~useExplanations
  /\ cacheFile = NoFile

NextWorkflow ==
  \/ StartQuestion \/ Fetch \/ Save \/ Answer \/ Finish
  \/ VerifyNode
  \/ VerifyStart \/ LlmAttempt
  \/ ChallengeNode
  \/ Compare

SpecWorkflow == InitWorkflow /\ [][NextWorkflow]_vars

(* Properties of the workflow *)

\* the steps of a question as the state shows them: handling begins
\* (classification), a resolver is called, the answer record is appended, a
\* verification provider is called, the result is made
HandlingBegins == pc = "next" /\ pc' \notin {"next", "done", "verify"}
ResolverCalled == fetchLog' # fetchLog
AnswerAppended == answeredQuestions' # answeredQuestions
ProviderCalled == providerLog' # providerLog
Scored == testResults' # testResults

\* the number of the steps above that one transition takes
CallsInStep ==
  (IF ResolverCalled THEN 1 ELSE 0) + (IF AnswerAppended THEN 1 ELSE 0)
    + (IF ProviderCalled THEN 1 ELSE 0) + (IF Scored THEN 1 ELSE 0)

\* C24: ordering. A question is classified, then answered, then verified if
\* its confidence is below the threshold, then scored; the questions are
\* answered in input order; no transition holds two external calls, and the
\* handling of a question begins only when the records of all questions
\* before it are appended.
C24_Ordering ==
  [][/\ CallsInStep <= 1
     /\ HandlingBegins =>
          /\ Len(answeredQuestions) = qi - 1
          /\ questions'[qi].questionType = determineQuestionType(questions[qi])
     /\ ResolverCalled =>
          /\ Len(fetchLog') = Len(fetchLog) + 1
          /\ Len(answeredQuestions) = qi - 1
          /\ providerLog = <<>> /\ testResults = <<>>
     /\ AnswerAppended =>
          /\ Len(answeredQuestions') = qi
          /\ SubSeq(answeredQuestions', 1, qi - 1) = answeredQuestions
          /\ answeredQuestions'[qi].number = questions[qi].number
          /\ answeredQuestions'[qi].questionType = determineQuestionType(questions[qi])
          /\ providerLog = <<>> /\ testResults = <<>>
     /\ (pc # "verify" /\ pc' = "verify") =>
          /\ Len(answeredQuestions) = Len(questions)
          /\ \A i \in 1..Len(questions) : answeredQuestions[i].number = questions[i].number
     /\ ProviderCalled =>
          /\ Len(providerLog') = Len(providerLog) + 1
          /\ LET call == providerLog'[Len(providerLog')]
                 k == FindIndexByNumber(entryQuestions, call.number)
             IN  /\ k # 0
                 /\ entryQuestions = answeredQuestions
                 /\ IsLowConfidence(entryQuestions[k])
                 /\ \A j \in 1..Len(providerLog) :
                      FindIndexByNumber(entryQuestions, providerLog[j].number) <= k
          /\ testResults = <<>>
     /\ Scored =>
          /\ testResults = <<>>
          /\ \A i \in 1..Len(entryQuestions) :
               IsLowConfidence(entryQuestions[i]) => CallsFor(entryQuestions[i].number) # <<>>
          /\ Len(verifiedQuestions) = Len(answeredQuestions)]_vars

\* C24 witness: two questions went through the workflow; a resolver was
\* called for one, the verification provider for the one answered with low
\* confidence and not for the other, and the result is made.
C24_Witness ==
  /\ pc = "compared"
  /\ Len(answeredQuestions) = 2
  /\ Len(fetchLog) = 1
  /\ Len(providerLog) = 1
  /\ providerLog[1].number = 2
  /\ testResults # <<>>

\* option k of question q has a code whose resolved description scores above
\* 0.7 against the keywords of the question
ScoresAbove(q, m, k) ==
  LET code == MatchFirst("HCPCS", q.options[k])
      keywords == extractKeywords(q.text)
  IN  /\ code # <<>>
      /\ Truthy(MapGet(m, code))
      /\ Len(keywords) > 0
      /\ 10 * matchCount(MapGet(m, code), keywords) > 7 * Len(keywords)

\* a step of the answer stage shows that the answering model was invoked:
\* the invocation threw, or the record appended is made of a text of the model
ModelInvoked ==
  \/ threwLog' # threwLog
  \/ /\ Len(answeredQuestions') = Len(answeredQuestions) + 1
     /\ \E c \in AnswerContents :
          LET r == ParseAnswer(c)
              record == answeredQuestions'[Len(answeredQuestions')]
          IN  /\ record.myAnswer = r.answer
              /\ record.confidence = r.confidence
              /\ record.reasoning = r.reasoning

\* C38: when the handler of an HCPCS question comes to its answer, it invokes
\* the answering model if and only if no option's resolved description scores
\* above 0.7 against the question keywords; otherwise the record it appends
\* has the letter of the first such option, confidence 8 and the reasoning
\* built from the description, no model is invoked and nothing is thrown, and
\* the question is not one the verification step selects.
C38_HcpcsDecision ==
  [][(Answer /\ questions[qi].questionType = "HCPCS") =>
       LET q == questions[qi]
           good == {k \in 1..Len(q.options) : ScoresAbove(q, frame.codeDescriptions, k)}
       IN  /\ ModelInvoked <=> good = {}
           /\ good # {} =>
                LET first == CHOOSE k \in good : \A j \in good : k <= j
                    record == answeredQuestions'[Len(answeredQuestions')]
                IN  /\ Len(answeredQuestions') = Len(answeredQuestions) + 1
                    /\ record.number = q.number
                    /\ record.myAnswer = UpperSeq[first]
                    /\ record.confidence = 8
                    /\ record.reasoning[1] = "HCPCS code "
                    /\ ~IsLowConfidence(record)
                    /\ threwLog' = threwLog
                    /\ questions' = questions]_vars

\* two HCPCS questions are answered: the model was invoked for the first,
\* whose code had no description, and the second was answered from the
\* description of its code without the model
C38_Witness ==
  /\ Len(answeredQuestions) = 2
  /\ answeredQuestions[1].questionType = "HCPCS"
  /\ answeredQuestions[2].questionType = "HCPCS"
  /\ threwLog = <<>>
  /\ answeredQuestions[1].confidence # 8
  /\ answeredQuestions[1].modelUsed = LlmAnswerModel
  /\ Len(fetchLog) >= 1
  /\ answeredQuestions[2].confidence = 8
  /\ answeredQuestions[2].myAnswer = "A"
  /\ answeredQuestions[2].reasoning[1] = "HCPCS code "

\* the record the answer step pushes when a handler throws or when the
\* general handler cannot parse the model's response
FallbackReasonings ==
  {<<"Error occurred during processing">>, <<"Could not parse model response">>}

IsFallbackRecord(q) ==
  q.myAnswer = "A" /\ q.confidence = 5 /\ q.reasoning \in FallbackReasonings

\* C33: every question that the answer step gave the fallback record (answer
\* A, confidence 5), after a handler exception or a response that could not
\* be parsed, is selected by the verification step, and a verification
\* provider has been called for it when the verification step has ended.
C33_FallbackIsVerified ==
  \A i \in DOMAIN entryQuestions :
    IsFallbackRecord(entryQuestions[i]) =>
      /\ pc \in {"attempt", "verified", "compare", "compared"} =>
           \E k \in DOMAIN lowConfidenceQuestions(entryQuestions) :
             lowConfidenceQuestions(entryQuestions)[k] = i
      /\ pc \in {"verified", "compare", "compared"} =>
           CallsFor(entryQuestions[i].number) # <<>>

\* a question whose handler threw and a question whose response could not be
\* parsed have both been through the verification
C33_Witness ==
  /\ pc = "verified"
  /\ Len(entryQuestions) = 2
  /\ IsFallbackRecord(entryQuestions[1]) /\ IsFallbackRecord(entryQuestions[2])
  /\ entryQuestions[1].reasoning # entryQuestions[2].reasoning
  /\ entryQuestions[1].number \in {threwLog[k] : k \in DOMAIN threwLog}
  /\ CallsFor(1) # <<>> /\ CallsFor(2) # <<>>

-----------------------------------------------------------------------------
(* The answer step under every batch size *)

\* the largest batch size tried
MaxBatchSize == 3

InitBatch ==
  /\ AnswerInputs
  /\ \A i \in 1..Len(questions) : questions[i].text \in WorkflowTexts
  /\ ~useExplanations
  /\ cacheFile = NoFile
  /\ batchSize \in 1..MaxBatchSize

NextBatch == StartQuestion \/ Fetch \/ Save \/ Answer \/ Finish

SpecBatch == InitBatch /\ [][NextBatch]_vars

\* C25: batching does not change semantics. Whatever the batch size, the loop
\* goes from each question to the one after it in the input, across a batch
\* boundary as within a batch, each question gets its one record at its own
\* position, and the loop ends when and only when every question has its
\* record; no step but the move to the next question reads or writes the
\* batch.
C25_BatchingTransparent ==
  [][/\ batchSize' = batchSize
     /\ qi' # qi =>
          /\ qi' = qi + 1
          /\ Len(answeredQuestions') = qi
          /\ answeredQuestions'[qi].number = questions[qi].number
     /\ qi' = qi => /\ answeredQuestions' = answeredQuestions
                    /\ batchStart' = batchStart
     /\ pc' = "done" =>
          /\ Len(answeredQuestions') = Len(questions)
          /\ qi' = Len(questions) + 1
     /\ (pc = "next" /\ qi <= Len(questions)) => pc' # "done"]_vars

\* C25 witness: a list of two questions was answered in batches of one; the
\* second question began a batch of its own.
C25_Witness ==
  /\ pc = "done"
  /\ batchSize = 1
  /\ batchStart = 2
  /\ Len(questions) = 2
  /\ Len(answeredQuestions) = 2
  /\ answeredQuestions[2].number = 2
  /\ Len(fetchLog) = 1

-----------------------------------------------------------------------------
(* Challenge step: devilsAdvocateCheck of the version that samples *)

ChallengeResultLabel == <<"C","H","A","L","L","E","N","G","E","_","R","E","S","U","L","T",":">>
FinalAnswerLabel == <<"F","I","N","A","L","_","A","N","S","W","E","R",":">>
EvidenceLabel == <<"E","V","I","D","E","N","C","E",":">>
Confirmed == <<"C","O","N","F","I","R","M","E","D">>
Changed == <<"C","H","A","N","G","E","D">>

\* /CHALLENGE_RESULT:\s*(CONFIRMED|CHANGED)/ tried at position i: the word
\* captured, <<>> if the expression does not match there
ChallengeResultAt(s, i) ==
  IF StartsWithAt(s, i, ChallengeResultLabel)
    THEN LET p == SkipSpace(s, i + Len(ChallengeResultLabel))
         IN  IF StartsWithAt(s, p, Confirmed) THEN Confirmed
             ELSE IF StartsWithAt(s, p, Changed) THEN Changed
             ELSE <<>>
    ELSE <<>>

\* response.match(/CHALLENGE_RESULT:\s*(CONFIRMED|CHANGED)/): the leftmost match
RECURSIVE ChallengeResultFrom(_, _)
ChallengeResultFrom(s, i) ==
  IF i > Len(s) THEN <<>>
  ELSE IF ChallengeResultAt(s, i) # <<>> THEN ChallengeResultAt(s, i)
  ELSE ChallengeResultFrom(s, i + 1)

resultMatch(response) == ChallengeResultFrom(response, 1)

\* /FINAL_ANSWER:\s*([A-D])/ tried at position i: the letter, "" if no match
FinalAnswerAt(s, i) ==
  IF StartsWithAt(s, i, FinalAnswerLabel)
    THEN LET p == SkipSpace(s, i + Len(FinalAnswerLabel))
         IN  IF p <= Len(s) /\ s[p] \in AnswerLetters THEN s[p] ELSE ""
    ELSE ""

\* response.match(/FINAL_ANSWER:\s*([A-D])/): the leftmost match
RECURSIVE FinalAnswerFrom(_, _)
FinalAnswerFrom(s, i) ==
  IF i > Len(s) THEN ""
  ELSE IF FinalAnswerAt(s, i) # "" THEN FinalAnswerAt(s, i)
  ELSE FinalAnswerFrom(s, i + 1)

answerMatch(response) == FinalAnswerFrom(response, 1)

\* position of the first 'EVIDENCE:' at or after i, 0 if there is none
RECURSIVE EvidenceLabelFrom(_, _)
EvidenceLabelFrom(s, i) ==
  IF i > Len(s) THEN 0
  ELSE IF StartsWithAt(s, i, EvidenceLabel) THEN i
  ELSE EvidenceLabelFrom(s, i + 1)

NoEvidence == <<"N","o"," ","e","v","i","d","e","n","c","e"," ","p","r","o","v","i","d","e","d">>

\* evidenceMatch ? evidenceMatch[1].trim() : 'No evidence provided', with
\* evidenceMatch = response.match(/EVIDENCE:\s*(.*?)(?=\n\n|$)/s)
evidence(response) ==
  LET i0 == EvidenceLabelFrom(response, 1)
  IN  IF i0 > 0
        THEN LET from == SkipSpace(response, i0 + Len(EvidenceLabel))
             IN  Trim(SubSeq(response, from, LazyEnd(response, from) - 1))
        ELSE NoEvidence

\* q => { const conf = q.confidence || 0; return conf >= 6 && conf <= 7; }
IsMediumConfidence(q) == ConfidenceOrZero(q) >= 6 /\ ConfidenceOrZero(q) <= 7

\* questions.filter(...): the positions of the medium-confidence questions
mediumConfidenceQuestions(qs) == {i \in DOMAIN qs : IsMediumConfidence(qs[i])}

\* a sample of one medium-confidence question less
sampleSizeFloor(n) == n \div 2

\* Math.ceil(mediumConfidenceQuestions.length * 0.5)
sampleSize(n) == (n + 1) \div 2

\* mediumConfidenceQuestions.sort(() => 0.5 - Math.random()).slice(0, sampleSize):
\* any arrangement of sampleSize of the medium-confidence questions
Samples(qs) ==
  LET medium == mediumConfidenceQuestions(qs)
  IN  {s \in [1..sampleSize(Cardinality(medium)) -> medium] :
         \A i, j \in DOMAIN s : i # j => s[i] # s[j]}

\* the challenge is applied whatever the challenger has found
ChallengeAppliesAlways(response, current) ==
  resultMatch(response) # <<>> /\ answerMatch(response) # ""

\* resultMatch && answerMatch, challengeResult === 'CHANGED' and
\* finalAnswer !== (question.verifiedAnswer || question.myAnswer)
ChallengeApplies(response, current) ==
  /\ resultMatch(response) # <<>> /\ answerMatch(response) # ""
  /\ resultMatch(response) = Changed
  /\ answerMatch(response) # current

\* the write of a successful challenge
Challenged(q, response) ==
  [q EXCEPT !.verifiedAnswer = answerMatch(response),
            !.reasoning = <<"Perplexity challenge">> \o evidence(response)]

ChallengeLabel == "Perplexity challenge"

\* the texts the challenger answers with
ChallengeContents ==
  {<<"C","H","A","L","L","E","N","G","E","_","R","E","S","U","L","T",":"," ","C","H","A","N","G","E","D","\n","F","I","N","A","L","_","A","N","S","W","E","R",":"," ","B","\n","E","V","I","D","E","N","C","E",":"," ","n","e","w"," ","r","u","l","e">>,
   <<"C","H","A","L","L","E","N","G","E","_","R","E","S","U","L","T",":"," ","C","O","N","F","I","R","M","E","D","\n","F","I","N","A","L","_","A","N","S","W","E","R",":"," ","A","\n","E","V","I","D","E","N","C","E",":"," ","s","a","m","e">>,
   <<"C","H","A","L","L","E","N","G","E","_","R","E","S","U","L","T",":"," ","C","H","A","N","G","E","D","\n","F","I","N","A","L","_","A","N","S","W","E","R",":"," ","A">>,
   <<"C","H","A","L","L","E","N","G","E","_","R","E","S","U","L","T",":"," ","C","H","A","N","G","E","D">>,
   <<"F","I","N","A","L","_","A","N","S","W","E","R",":"," ","B">>,
   <<"C","H","A","L","L","E","N","G","E","_","R","E","S","U","L","T",":"," ","C","O","N","F","I","R","M","E","D","\n","F","I","N","A","L","_","A","N","S","W","E","R",":"," ","C">>,
   <<"N","o","t"," ","s","u","r","e",".">>}

\* the text a standard model reached by the fallback answers with
ChallengeFallbackContent == <<"C","H","A","L","L","E","N","G","E","_","R","E","S","U","L","T",":","C","H","A","N","G","E","D","\n","F","I","N","A","L","_","A","N","S","W","E","R",":","C","\n","E","V","I","D","E","N","C","E",":","x","\n","\n","m","o","r","e">>

\* perplexity.query(challengePrompt, ..., 'search', true)
ChallengeOutcomes ==
  {query("search", TRUE, AllAnswer, c) : c \in ChallengeContents}
    \cup {query("search", TRUE, env, ChallengeFallbackContent) : env \in PerplexityFailures}

\* devilsAdvocateCheck up to the loop: the sample is drawn
ChallengeStart ==
  /\ pc = "challenge"
  /\ \E s \in Samples(verifiedQuestions) :
       /\ sampledQuestions' = s
       /\ pc' = IF s = <<>> THEN "challenged" ELSE "challenging"
  /\ qi' = 1
  /\ UNCHANGED <<questions, variant, entryQuestions, verifiedQuestions, strategy,
                 providerLog, attemptErrors, lastResponse>>
  /\ UNCHANGED <<fileVars, answerVars, parseVars, scoreVars, classifyVars, queryVars>>

\* one iteration of the loop over the sampled questions: the try block holds
\* the request and the parsing, the catch block logs
ChallengeQuestion ==
  /\ pc = "challenging"
  /\ LET question == verifiedQuestions[sampledQuestions[qi]]
         current == OrElse(question.verifiedAnswer, question.myAnswer)
         questionIndex == FindIndexByNumber(verifiedQuestions, question.number)
     IN  \E out \in ChallengeOutcomes :
           /\ lastResponse' = out
           /\ providerLog' = Append(providerLog,
                [number |-> question.number, strategy |-> ChallengeLabel,
                 success |-> out.status = "ok"])
           /\ verifiedQuestions' =
                IF out.status = "ok" /\ ChallengeApplies(out.content, current)
                     /\ questionIndex # 0
                  THEN [verifiedQuestions EXCEPT
                          ![questionIndex] = Challenged(@, out.content)]
                  ELSE verifiedQuestions
  /\ qi' = qi + 1
  /\ pc' = IF qi + 1 > Len(sampledQuestions) THEN "challenged" ELSE "challenging"
  /\ UNCHANGED <<questions, variant, entryQuestions, strategy, attemptErrors,
                 sampledQuestions>>
  /\ UNCHANGED <<fileVars, answerVars, parseVars, scoreVars, classifyVars, queryVars>>

(* Inputs of the challenge step *)

\* the longest list given to the challenge step
MaxChallenged == 3

\* a question as the steps before leave it: answered A with low, medium or
\* high confidence, or verified to B with medium confidence
ChallengeKinds == {"low", "medium", "verified", "high"}

ChallengeInput(i, kind) ==
  LET q == [NewQuestion(i, <<"Q">>, <<>>) EXCEPT
              !.questionType = "GENERAL", !.myAnswer = "A",
              !.reasoning = <<"o","k">>, !.modelUsed = LlmAnswerModel]
  IN  CASE kind = "low" -> [q EXCEPT !.confidence = 5]
        [] kind = "medium" -> [q EXCEPT !.confidence = 6]
        [] kind = "verified" -> [q EXCEPT !.confidence = 7, !.verifiedAnswer = "B"]
        [] OTHER -> [q EXCEPT !.confidence = 8]

ChallengeLists ==
  UNION {{[i \in 1..n |-> ChallengeInput(i, kinds[i])] :
            kinds \in [1..n -> ChallengeKinds]} : n \in 1..MaxChallenged}

InitChallenge ==
  /\ verifiedQuestions \in ChallengeLists
  /\ entryQuestions = verifiedQuestions
  /\ questions = verifiedQuestions
  /\ variant = "chain"
  /\ strategy = 0
  /\ providerLog = <<>>
  /\ attemptErrors = <<>>
  /\ lastResponse = NoResponse
  /\ sampledQuestions = <<>>
  /\ pc = "challenge"
  /\ qi = 1
  /\ IdleAnswer /\ IdleFiles /\ IdleParse /\ IdleScore /\ IdleClassify /\ IdleQuery

NextChallenge == ChallengeStart \/ ChallengeQuestion

SpecChallenge == InitChallenge /\ [][NextChallenge]_vars

\* the sampled questions the loop has dealt with
ChallengedSoFar ==
  IF pc \in {"challenging", "challenged"}
    THEN {sampledQuestions[k] : k \in 1..(qi - 1)} ELSE {}

\* C31 (sample): once the sample is drawn it holds ceil(n/2) distinct
\* questions, n being the number of questions with confidence 6 or 7, and
\* every sampled question has confidence 6 or 7.
C31_SampleSize ==
  pc \in {"challenging", "challenged"} =>
    LET n == Cardinality({i \in DOMAIN entryQuestions :
                            entryQuestions[i].confidence \in {6, 7}})
    IN  /\ 2 * Len(sampledQuestions) \in {n, n + 1}
        /\ Cardinality({sampledQuestions[k] : k \in DOMAIN sampledQuestions})
             = Len(sampledQuestions)
        /\ \A k \in DOMAIN sampledQuestions :
             entryQuestions[sampledQuestions[k]].confidence \in {6, 7}

\* C31 (effect): one challenge changes at most the sampled question it is
\* about, and changes it only when the response was obtained, holds
\* CHALLENGE_RESULT: CHANGED and holds a FINAL_ANSWER other than the current
\* final answer; it then sets verifiedAnswer to that letter and rewrites
\* reasoning, and no other field. A provider error and a response that
\* cannot be parsed leave every question as it was.
C31_ChallengeEffect ==
  [][ChallengeQuestion =>
       LET idx == sampledQuestions[qi]
           before == verifiedQuestions[idx]
           after == verifiedQuestions'[idx]
           response == lastResponse'.content
           current == OrElse(before.verifiedAnswer, before.myAnswer)
           applies == /\ lastResponse'.status = "ok"
                      /\ resultMatch(response) = Changed
                      /\ answerMatch(response) \in AnswerLetters \ {current}
       IN  /\ \A i \in DOMAIN verifiedQuestions :
                i # idx => verifiedQuestions'[i] = verifiedQuestions[i]
           /\ Len(verifiedQuestions') = Len(verifiedQuestions)
           /\ ~applies => after = before
           /\ applies =>
                /\ after.verifiedAnswer = answerMatch(response)
                /\ after = [before EXCEPT !.verifiedAnswer = after.verifiedAnswer,
                                          !.reasoning = after.reasoning]
           /\ after.confidence = before.confidence
           /\ after.myAnswer = before.myAnswer]_vars

\* C31 (frame): at every point of the challenge step a question that is not
\* in the sample is as it was given, and every question has the confidence
\* and the initial answer it was given.
C31_OnlySampledChange ==
  pc \in {"challenge", "challenging", "challenged"} =>
    /\ Len(verifiedQuestions) = Len(entryQuestions)
    /\ \A i \in DOMAIN verifiedQuestions :
         /\ verifiedQuestions[i].confidence = entryQuestions[i].confidence
         /\ verifiedQuestions[i].myAnswer = entryQuestions[i].myAnswer
         /\ i \notin ChallengedSoFar => verifiedQuestions[i] = entryQuestions[i]

\* C31: the challenge step samples ceil(n/2) of the n questions with
\* confidence 6 or 7, changes a question only if it was sampled and the
\* response holds CHALLENGE_RESULT: CHANGED with a FINAL_ANSWER other than the
\* current final answer, then sets verifiedAnswer and reasoning only, and
\* never touches confidence or myAnswer; a provider error and a response
\* that cannot be parsed leave the question as it was.
C31_ChallengeStep ==
  /\ [](C31_SampleSize /\ C31_OnlySampledChange)
  /\ C31_ChallengeEffect

\* three medium-confidence questions, two of them sampled: one was changed by
\* the challenge, one was confirmed, and the third was never asked about
C31_Witness ==
  /\ pc = "challenged"
  /\ Len(verifiedQuestions) = 3
  /\ \A i \in 1..3 : IsMediumConfidence(entryQuestions[i])
  /\ Len(sampledQuestions) = 2
  /\ \E i \in ChallengedSoFar :
       /\ verifiedQuestions[i].verifiedAnswer # entryQuestions[i].verifiedAnswer
       /\ IsChallenged(verifiedQuestions[i])
  /\ \E i \in ChallengedSoFar : verifiedQuestions[i] = entryQuestions[i]
  /\ lastResponse.status = "error"

-----------------------------------------------------------------------------
(* Verification followed by the challenge step *)

\* the edge verify -> challenge: devilsAdvocateNode gives state.verifiedQuestions
\* to devilsAdvocateCheck
devilsAdvocateNode ==
  /\ pc = "verified"
  /\ pc' = "challenge"
  /\ UNCHANGED <<questions, qi>>
  /\ UNCHANGED <<fileVars, answerVars, verifyVars, parseVars, scoreVars, classifyVars, queryVars>>

InitPipeline == InitVerify /\ variant = "chain"

\* the three attempts of the chain
PipelineReasoningAttempt == variant = "chain" /\ VerifyAttemptOf(1, PipelineContents)
PipelineSearchAttempt == variant = "chain" /\ VerifyAttemptOf(2, PipelineContents)
PipelineLlmAttempt == variant = "chain" /\ VerifyAttemptOf(3, PipelineContents)

NextPipeline ==
  \/ VerifyStart
  \/ PipelineReasoningAttempt \/ PipelineSearchAttempt \/ PipelineLlmAttempt
  \/ devilsAdvocateNode
  \/ ChallengeStart \/ ChallengeQuestion

SpecPipeline == InitPipeline /\ [][NextPipeline]_vars

\* a strategy of the escalation chain has succeeded for question number n
VerifiedByChain(n) ==
  \E j \in 1..Len(providerLog) :
    /\ providerLog[j].number = n
    /\ providerLog[j].success
    /\ providerLog[j].strategy # ChallengeLabel

\* C32: a question's verifiedAnswer is written at most once in a run: the
\* challenge step never changes the verifiedAnswer of a question that the
\* escalation chain has verified, whatever confidence the verification
\* reported.
C32_VerifiedAnswerWrittenOnce ==
  [][ChallengeQuestion =>
       \A i \in DOMAIN verifiedQuestions :
         VerifiedByChain(verifiedQuestions[i].number) =>
           verifiedQuestions'[i].verifiedAnswer = verifiedQuestions[i].verifiedAnswer]_vars

\* C37: the final answer that is scored, verifiedAnswer if it is set and
\* myAnswer otherwise, is one of A, B, C, D for every question at every point
\* of the verification and of the challenge step, and after them.
C37_FinalAnswerIsLetter ==
  \A i \in 1..Len(verifiedQuestions) :
    OrElse(verifiedQuestions[i].verifiedAnswer, verifiedQuestions[i].myAnswer)
      \in AnswerLetters

-----------------------------------------------------------------------------
(* PerplexityAPI.query as a process: one request after the other *)

ModelTypes == {"search", "reasoning", "research"}

\* the switch on modelType: the model a call asks for
ModelOf(modelType, usePro) ==
  CASE modelType = "search" -> IF usePro THEN "sonar-pro" ELSE "sonar"
    [] modelType = "reasoning" ->
         IF usePro THEN "sonar-reasoning-pro" ELSE "sonar-reasoning"
    [] OTHER -> "sonar-deep-research"

\* what a request can come to: an answer, an HTTP status that is an error, no
\* response at all, or a response without choices[0].message.content
RequestFailures == {"400", "402", "429", "500", "no response", "no content"}
RequestOutcomes == {"ok"} \cup RequestFailures

\* a catch block that asks for the pro search model after the reasoning model
FallbackCallToPro(call, failure) ==
  IF call.usePro /\ failure \in {"400", "402"}
    THEN [call EXCEPT !.usePro = FALSE]
  ELSE IF call.modelType = "reasoning"
    THEN [call EXCEPT !.modelType = "search", !.usePro = TRUE]
  ELSE NoCall

\* the catch block: the call that query makes next, NoCall if it throws
FallbackCall(call, failure) ==
  IF call.usePro /\ failure \in {"400", "402"}
    THEN [call EXCEPT !.usePro = FALSE]
  ELSE IF call.modelType = "reasoning"
    THEN [call EXCEPT !.modelType = "search"]
  ELSE NoCall

\* query is entered: without an API key it throws
QueryEnter ==
  /\ pc = "query"
  /\ pc' = IF queryCall.apiKey THEN "request" ELSE "threw"
  /\ UNCHANGED <<questions, qi, queryVars>>
  /\ UNCHANGED <<fileVars, answerVars, verifyVars, parseVars, scoreVars, classifyVars>>

\* axios.post and what follows it in the try block, then the catch block
QueryRequest ==
  /\ pc = "request"
  /\ \E outcome \in RequestOutcomes :
       /\ requestLog' = Append(requestLog,
            [modelType |-> queryCall.modelType, usePro |-> queryCall.usePro,
             model |-> ModelOf(queryCall.modelType, queryCall.usePro),
             outcome |-> outcome])
       /\ IF outcome = "ok"
            THEN pc' = "returned" /\ UNCHANGED queryCall
            ELSE LET next == FallbackCall(queryCall, outcome)
                 IN  IF next = NoCall
                       THEN pc' = "threw" /\ UNCHANGED queryCall
                       ELSE pc' = "query" /\ queryCall' = next
  /\ UNCHANGED <<questions, qi>>
  /\ UNCHANGED <<fileVars, answerVars, verifyVars, parseVars, scoreVars, classifyVars>>

InitQuery ==
  /\ queryCall \in [apiKey : BOOLEAN, modelType : ModelTypes, usePro : BOOLEAN]
  /\ requestLog = <<>>
  /\ questions = <<>>
  /\ pc = "query"
  /\ qi = 1
  /\ IdleFiles /\ IdleAnswer /\ IdleVerify /\ IdleParse /\ IdleScore /\ IdleClassify

NextQuery == QueryEnter \/ QueryRequest

SpecQuery == InitQuery /\ [][NextQuery]_vars

\* every step that can be taken is taken in the end
FairSpecQuery == SpecQuery /\ WF_vars(NextQuery)

\* at most three requests, no two of them with the same modelType and usePro,
\* and none without an API key
QueryBounded ==
  /\ Len(requestLog) <= 3
  /\ \A i, j \in DOMAIN requestLog :
       (/\ requestLog[i].modelType = requestLog[j].modelType
        /\ requestLog[i].usePro = requestLog[j].usePro) => i = j
  /\ ~queryCall.apiKey => requestLog = <<>>

\* from one request to the next there is one fallback, from reasoning to
\* search or from pro to standard
QueryFallsBack ==
  \A i \in 1..(Len(requestLog) - 1) :
    LET a == requestLog[i]
        b == requestLog[i + 1]
    IN  \/ a.modelType = "reasoning" /\ b.modelType = "search" /\ b.usePro = a.usePro
        \/ a.usePro /\ ~b.usePro /\ b.modelType = a.modelType

QueryEnded == pc \in {"returned", "threw"}

\* C39: PerplexityAPI.query always terminates. Whatever the requests come to,
\* it posts at most three of them, never two with the same modelType and
\* usePro, falls back only from reasoning to search and from pro to standard,
\* and without an API key it throws before any request.
C39_QueryTerminates ==
  /\ [](QueryBounded /\ QueryFallsBack)
  /\ [](~queryCall.apiKey => (pc \in {"query", "threw"}))
  /\ <>QueryEnded

\* three requests were posted and all failed: the reasoning pro model was
\* refused, the reasoning model failed, the search model failed, and query threw
C39_Witness ==
  /\ pc = "threw"
  /\ Len(requestLog) = 3
  /\ requestLog[1].model = "sonar-reasoning-pro"
  /\ requestLog[2].model = "sonar-reasoning"
  /\ requestLog[3].model = "sonar"

====
